---------------------------- MODULE Spec2Model ----------------------------
(***************************************************************************)
(* Model of the Chef Ann commodity-planning Cloud Function                 *)
(* (src/functions/main.py): the reference data loaded at cold start, the   *)
(* dispatcher `main`, the endpoint handlers and the SSE relay              *)
(* `stream_gemini`.                                                        *)
(*                                                                         *)
(* JSON values are a tagged union so that Python's isinstance tests, None, *)
(* missing keys and str() can be told apart:                               *)
(*   [t |-> "null"]            None                                        *)
(*   [t |-> "str",  v |-> s]   a string                                    *)
(*   [t |-> "num",  v |-> s]   a number, by its decimal text               *)
(*   [t |-> "list", v |-> seq] a list                                      *)
(*   [t |-> "dict", v |-> seq] a dict: its <<key, value>> pairs in         *)
(*                             insertion order                             *)
(* A Python attribute that may be None (chunk.candidates, part.text ...)   *)
(* is an option: <<>> for None, <<x>> for the value x.                     *)
(***************************************************************************)
EXTENDS Integers, Sequences, FiniteSets, TLC

\* ------------------------------------------------------------------ JSON

JNull == [t |-> "null"]
JStr(s) == [t |-> "str", v |-> s]
JNum(s) == [t |-> "num", v |-> s]
JList(s) == [t |-> "list", v |-> s]
JDict(s) == [t |-> "dict", v |-> s]

\* isinstance(x, list), isinstance(x, dict)
IsList(x) == x.t = "list"
IsDict(x) == x.t = "dict"

\* Equality of two JSON values that may be of different types.
JEq(a, b) == a.t = b.t /\ a = b

\* str(x) of a scalar: str(None) is 'None', a string is itself, a number its text.
PyStr(x) ==
    CASE x.t = "null" -> "None"
      [] x.t = "bool" -> (IF x.v = "true" THEN "True" ELSE "False")
      [] x.t \in {"str", "num"} -> x.v

\* The positions of key k in a dict (at most one in a well-formed dict).
KeyIdx(d, k) == {i \in 1..Len(d.v) : d.v[i][1] = k}

\* `k in d`
HasKey(d, k) == KeyIdx(d, k) # {}

\* d[k], for a key that is present
Lookup(d, k) == d.v[CHOOSE i \in KeyIdx(d, k) : TRUE][2]

\* d.get(k, default)
DictGet(d, k, default) == IF HasKey(d, k) THEN Lookup(d, k) ELSE default

\* d[k] = x : an existing key keeps its place, a new key goes last
DictSet(d, k, x) ==
    IF HasKey(d, k)
    THEN JDict([i \in 1..Len(d.v) |-> IF d.v[i][1] = k THEN <<k, x>> ELSE d.v[i]])
    ELSE JDict(Append(d.v, <<k, x>>))

\* bool(x)
Truthy(x) ==
    CASE x.t = "null" -> FALSE
      [] x.t = "str" -> x.v # ""
      [] x.t = "num" -> x.v \notin {"0", "0.0"}
      [] x.t = "bool" -> x.v = "true"
      [] OTHER -> Len(x.v) > 0

\* The concatenation of a sequence of sequences.
RECURSIVE Flatten(_)
Flatten(ss) == IF ss = <<>> THEN <<>> ELSE Head(ss) \o Flatten(Tail(ss))

\* [f(x) for x in s]
MapSeq(f(_), s) == [i \in 1..Len(s) |-> f(s[i])]


JBool(b) == [t |-> "bool", v |-> IF b THEN "true" ELSE "false"]

\* An option: None, or a value.
None == <<>>
Some(x) == <<x>>

\* ------------------------------------------------------- reference data

VARIABLES
    COMMODITIES_COMPREHENSIVE,  \* usda_foods_comprehensive.json
    COMMODITIES_LEGACY,         \* usda_foods_sy26_27.json
    MEAL_PATTERNS,              \* usda_meal_patterns.json
    DISTRICT_PROFILE,           \* district_profile.json
    FBG_YIELDS,                 \* food_buying_guide_yields.json
    COST_LOOKUP,                \* _build_cost_lookup(COMMODITIES_LEGACY)
    loaded                      \* history: the six values above as first loaded

store == <<COMMODITIES_COMPREHENSIVE, COMMODITIES_LEGACY, MEAL_PATTERNS,
           DISTRICT_PROFILE, FBG_YIELDS, COST_LOOKUP>>

\* ---------------------------------------------------------- environment

VARIABLES
    environ                     \* os.environ of the process, and whether
                                \* application-default credentials can be found

VARIABLES
    OUTPUT_FILE                 \* data/usda_foods_comprehensive.json as the
                                \* extraction scripts read and write it

\* The environments the process is started in: nothing set and no credentials,
\* and a deployment with its project, its location and credentials.
BareEnvironment ==
    [GCP_PROJECT |-> None, GOOGLE_CLOUD_PROJECT |-> None, GCP_LOCATION |-> None,
     credentials |-> FALSE]
DeployedEnvironment ==
    [GCP_PROJECT |-> None, GOOGLE_CLOUD_PROJECT |-> Some("chef-ann-prod"),
     GCP_LOCATION |-> Some("us-central1"), credentials |-> TRUE]
Environments == {BareEnvironment, DeployedEnvironment}

\* os.environ.get(name) or fallback: an unset and an empty variable both fall
\* through.
EnvOr(value, fallback) == IF value # None /\ value[1] # "" THEN value[1] ELSE fallback

\* Line 27
GCP_PROJECT ==
    EnvOr(environ.GCP_PROJECT, EnvOr(environ.GOOGLE_CLOUD_PROJECT, "wz-chef-ann"))

\* Line 28: os.environ.get("GCP_LOCATION", "global")
GCP_LOCATION == IF environ.GCP_LOCATION # None THEN environ.GCP_LOCATION[1] ELSE "global"

\* Line 29
MODEL == "gemini-3-pro-preview"

\* get_client() (lines 31-37): the arguments the client is made with.
get_client == [vertexai |-> TRUE, project |-> GCP_PROJECT, location |-> GCP_LOCATION]

\* Module import (lines 25-37): the three assignments and the def raise
\* nothing, whatever the environment holds; get_client is not called.
Import(environments) == environ \in environments

\* The service does not touch the file of the extraction scripts.
NoExtraction == OUTPUT_FILE = JDict(<<>>)

\* load_json of a file that does not exist: {}
EmptyDoc == JDict(<<>>)

\* Commodity records of the comprehensive file.
CompBeef ==
    JDict(<< <<"wbscm_id", JStr("100")>>, <<"description", JStr("Beef, fine ground")>>,
             <<"category", JStr("beef")>>, <<"processing_level", JStr("raw")>>,
             <<"case_weight_lbs", JNum("40")>>, <<"servings_per_case", JNum("238")>> >>)
CompYogurt ==
    JDict(<< <<"wbscm_id", JNum("110")>>, <<"description", JStr("Yogurt, vanilla")>>,
             <<"category", JStr("dairy")>>, <<"case_weight_lbs", JNum("24")>>,
             <<"servings_per_case", JNull>> >>)
CompCheese ==
    JDict(<< <<"wbscm_id", JStr("120")>>, <<"description", JStr("Cheese, cheddar")>>,
             <<"category", JStr("cheese")>>, <<"processing_level", JStr("processed")>>,
             <<"est_cost_per_lb", JNum("4.10")>> >>)
CompNuts ==
    JDict(<< <<"wbscm_id", JStr("130")>>, <<"description", JStr("Almonds")>>,
             <<"category", JStr("nuts")>> >>)

\* A record added by the retry of a failed PDF whose sheet gave no identifier
\* ("If a field cannot be determined from the PDF, use null").
CompUnnumbered ==
    JDict(<< <<"wbscm_id", JNull>>, <<"description", JStr("Product sheet 100369")>>,
             <<"category", JStr("other")>>, <<"case_weight_lbs", JNum("30")>> >>)

SampleComprehensive ==
    JDict(<< <<"metadata", JDict(<< <<"total_products", JNum("5")>> >>)>>,
             <<"products_by_category",
               JDict(<< <<"beef", JList(<<CompBeef>>)>>,
                        <<"dairy", JList(<<CompYogurt>>)>>,
                        <<"cheese", JList(<<CompCheese>>)>>,
                        <<"nuts", JList(<<CompNuts>>)>>,
                        <<"other", JList(<<CompUnnumbered>>)>> >>)>>,
             <<"all_products",
               JList(<<CompBeef, CompYogurt, CompCheese, CompNuts, CompUnnumbered>>)>> >>)

\* Commodity records of the legacy file.
LegBeef ==
    JDict(<< <<"wbscm_id", JStr("100")>>, <<"description", JStr("Beef ground (legacy)")>>,
             <<"est_cost_per_lb", JNum("3.10")>>, <<"yield_factor", JNum("0.70")>> >>)
LegBeefAgain ==
    JDict(<< <<"wbscm_id", JNum("100")>>, <<"description", JStr("Beef ground (dup)")>>,
             <<"est_cost_per_lb", JNum("3.45")>> >>)
LegChicken ==
    JDict(<< <<"wbscm_id", JStr("200")>>, <<"description", JStr("Chicken, diced")>>,
             <<"est_cost_per_lb", JNum("2.60")>> >>)
LegOats ==
    JDict(<< <<"wbscm_id", JStr("300")>>, <<"description", JStr("Oats, rolled")>> >>)

SampleLegacy ==
    JDict(<< <<"school_year", JStr("SY26-27")>>,
             <<"proteins", JDict(<< <<"beef", JList(<<LegBeef, LegBeefAgain>>)>>,
                                    <<"poultry", JList(<<LegChicken>>)>> >>)>>,
             <<"grains", LegOats>> >>)

SampleMealPatterns ==
    JDict(<< <<"elementary", JDict(<< <<"grains_oz_eq_weekly", JNum("8")>> >>)>>,
             <<"high", JDict(<< <<"grains_oz_eq_weekly", JNum("10")>> >>)>> >>)

SampleDistrictProfile ==
    JDict(<< <<"total_entitlement", JNum("485000")>>,
             <<"reimbursement_rates", JDict(<< <<"free", JNum("4.43")>> >>)>> >>)

SampleYields == JDict(<< <<"beef_ground", JNum("0.74")>> >>)

\* _build_cost_lookup._extract: a list's items one after the other; a dict with
\* both keys sets lookup[str(wbscm_id)] (a later record overwrites an earlier
\* one); any other dict is searched through its values; scalars are ignored.
RECURSIVE _extract(_, _), _extract_each(_, _)
_extract(lookup, obj) ==
    IF IsList(obj) THEN _extract_each(lookup, obj.v)
    ELSE IF IsDict(obj) THEN
        IF HasKey(obj, "wbscm_id") /\ HasKey(obj, "est_cost_per_lb")
        THEN DictSet(lookup, PyStr(Lookup(obj, "wbscm_id")), Lookup(obj, "est_cost_per_lb"))
        ELSE _extract_each(lookup, [i \in 1..Len(obj.v) |-> obj.v[i][2]])
    ELSE lookup
_extract_each(lookup, objs) ==
    IF objs = <<>> THEN lookup
    ELSE _extract_each(_extract(lookup, Head(objs)), Tail(objs))

_build_cost_lookup(legacy_data) == _extract(JDict(<<>>), legacy_data)

\* The documents the data directory can hold at cold start: every file
\* missing, or the sample files.
LoadableStores ==
    { [comprehensive |-> EmptyDoc, legacy |-> EmptyDoc, meal_patterns |-> EmptyDoc,
       district_profile |-> EmptyDoc, yields |-> EmptyDoc],
      [comprehensive |-> SampleComprehensive, legacy |-> SampleLegacy,
       meal_patterns |-> SampleMealPatterns,
       district_profile |-> SampleDistrictProfile, yields |-> SampleYields] }

\* Module load (lines 53-76): the five load_json calls and the cost lookup.
LoadData ==
    \E files \in LoadableStores :
        /\ COMMODITIES_COMPREHENSIVE = files.comprehensive
        /\ COMMODITIES_LEGACY = files.legacy
        /\ MEAL_PATTERNS = files.meal_patterns
        /\ DISTRICT_PROFILE = files.district_profile
        /\ FBG_YIELDS = files.yields
        /\ COST_LOOKUP = _build_cost_lookup(files.legacy)
        /\ loaded = <<files.comprehensive, files.legacy, files.meal_patterns,
                      files.district_profile, files.yields,
                      _build_cost_lookup(files.legacy)>>

\* Frontend route slug -> comprehensive category keys, in the dict's order.
CATEGORY_MAP ==
    << <<"beef", <<"beef">> >>, <<"poultry", <<"poultry">> >>, <<"pork", <<"pork">> >>,
       <<"fish", <<"fish">> >>, <<"vegetables", <<"vegetables">> >>,
       <<"fruits", <<"fruits">> >>, <<"grains", <<"grains">> >>,
       <<"dairy", <<"dairy", "cheese", "eggs">> >>, <<"legumes", <<"beans">> >> >>

CategorySlugs == [i \in 1..Len(CATEGORY_MAP) |-> CATEGORY_MAP[i][1]]

\* A listing that reads the first mapped category only.
FirstMappedCategory(slug) ==
    <<CATEGORY_MAP[CHOOSE i \in 1..Len(CATEGORY_MAP) : CATEGORY_MAP[i][1] = slug][2][1]>>

\* CATEGORY_MAP[slug], for a slug that is a key
MappedCategories(slug) ==
    CATEGORY_MAP[CHOOSE i \in 1..Len(CATEGORY_MAP) : CATEGORY_MAP[i][1] = slug][2]

DEFAULT_COST_PER_LB ==
    JDict(<< <<"beef", JNum("3.25")>>, <<"poultry", JNum("2.10")>>,
             <<"pork", JNum("2.15")>>, <<"fish", JNum("2.80")>>,
             <<"cheese", JNum("3.80")>>, <<"dairy", JNum("3.50")>>,
             <<"eggs", JNum("2.00")>>, <<"vegetables", JNum("1.20")>>,
             <<"fruits", JNum("1.50")>>, <<"grains", JNum("0.65")>>,
             <<"beans", JNum("0.55")>>, <<"other", JNum("2.00")>> >>)

cors_headers ==
    << <<"Access-Control-Allow-Origin", "*">>,
       <<"Access-Control-Allow-Methods", "GET, POST, OPTIONS">>,
       <<"Access-Control-Allow-Headers", "Content-Type, Accept">>,
       <<"Access-Control-Max-Age", "3600">> >>

\* ------------------------------------------------------ commodity lookup

\* First element of a sequence satisfying a test, as an option:
\* next((c for c in s if test(c)), None)
FirstMatch(test(_), s) ==
    LET hits == {i \in 1..Len(s) : test(s[i])}
    IN  IF hits = {} THEN None
        ELSE Some(s[CHOOSE i \in hits : \A j \in hits : i <= j])

\* Lines 198-205: the dict _add_cost_to_product builds from the product's
\* fields, the cost lookup and the default costs.
EnrichedProduct(product) ==
    LET wbscm_id == PyStr(DictGet(product, "wbscm_id", JStr("")))
        cat == DictGet(product, "category", JStr("other"))
        cost == IF HasKey(COST_LOOKUP, wbscm_id)
                THEN Lookup(COST_LOOKUP, wbscm_id)
                ELSE IF cat.t = "str"
                     THEN DictGet(DEFAULT_COST_PER_LB, cat.v, JNum("2.00"))
                     ELSE JNum("2.00")
        level == DictGet(product, "processing_level", JStr("processed"))
        enriched == DictSet(DictSet(product, "est_cost_per_lb", cost),
                            "caf_recommended", JBool(JEq(level, JStr("raw"))))
    IN  enriched

\* An enrichment that writes into the product it is given (no dict(product)).
_add_cost_in_place(product) ==
    [ret |-> EnrichedProduct(product), product |-> EnrichedProduct(product)]

\* _add_cost_to_product(product).  ret is the returned dict; product is the
\* argument object as the call leaves it: line 197 copies it (dict(product))
\* and every assignment goes to the copy.
_add_cost_to_product(product) ==
    [ret |-> EnrichedProduct(product), product |-> product]

\* "['a', 'b']": str() of a list of strings
RECURSIVE ReprItems(_)
ReprItems(ss) ==
    IF ss = <<>> THEN ""
    ELSE "'" \o Head(ss) \o "'" \o (IF Len(ss) > 1 THEN ", " ELSE "") \o ReprItems(Tail(ss))
ReprList(ss) == "[" \o ReprItems(ss) \o "]"

\* (jsonify(body), status, cors_headers())
JsonResponse(body, status) ==
    [status |-> status, mimetype |-> "application/json",
     headers |-> cors_headers, body |-> body, gen |-> [fn |-> "none"]]

\* A listing that keeps what it enriched: the products of all_products are
\* replaced by their enriched copies.
handle_commodities_keeping(category) ==
    [resp |-> JsonResponse(JList(<<>>), 200),
     comprehensive |->
        IF HasKey(COMMODITIES_COMPREHENSIVE, "all_products")
        THEN DictSet(COMMODITIES_COMPREHENSIVE, "all_products",
                     JList(MapSeq(EnrichedProduct,
                                  Lookup(COMMODITIES_COMPREHENSIVE, "all_products").v)))
        ELSE COMMODITIES_COMPREHENSIVE]

\* handle_commodities(category): category is None (<<>>) or a string.
\* resp is the response; comprehensive is COMMODITIES_COMPREHENSIVE as the call
\* leaves it (the product objects handed to _add_cost_to_product are the
\* objects of the store's own lists).
handle_commodities(category) ==
    LET comprehensive_cats ==
            DictGet(COMMODITIES_COMPREHENSIVE, "products_by_category", JDict(<<>>))
        ProductsOf(comp_cat) == DictGet(comprehensive_cats, comp_cat, JList(<<>>)).v
        ItemsOf(comp_cats) == Flatten([i \in 1..Len(comp_cats) |-> ProductsOf(comp_cats[i])])
    IN  IF category # None /\ category[1] # ""
        THEN IF \E i \in 1..Len(CATEGORY_MAP) : CATEGORY_MAP[i][1] = category[1]
             THEN LET comp_cats == MappedCategories(category[1])
                      After(product) == _add_cost_to_product(product).product
                      Ret(product) == _add_cost_to_product(product).ret
                      touched == {comp_cats[i] : i \in 1..Len(comp_cats)}
                      cats_after ==
                          JDict([i \in 1..Len(comprehensive_cats.v) |->
                                 IF comprehensive_cats.v[i][1] \in touched
                                 THEN <<comprehensive_cats.v[i][1],
                                        JList(MapSeq(After, comprehensive_cats.v[i][2].v))>>
                                 ELSE comprehensive_cats.v[i]])
                  IN  [resp |-> JsonResponse(JList(MapSeq(Ret, ItemsOf(comp_cats))), 200),
                       comprehensive |->
                           IF HasKey(COMMODITIES_COMPREHENSIVE, "products_by_category")
                           THEN DictSet(COMMODITIES_COMPREHENSIVE,
                                        "products_by_category", cats_after)
                           ELSE COMMODITIES_COMPREHENSIVE]
             ELSE [resp |-> JsonResponse(
                               JDict(<< <<"error",
                                          JStr("Category '" \o category[1]
                                               \o "' not found. Valid: "
                                               \o ReprList(CategorySlugs))>> >>), 404),
                   comprehensive |-> COMMODITIES_COMPREHENSIVE]
        ELSE [resp |-> JsonResponse(
                          JDict([i \in 1..Len(CATEGORY_MAP) |->
                                 <<CATEGORY_MAP[i][1],
                                   JNum(ToString(Len(ItemsOf(CATEGORY_MAP[i][2]))))>>]), 200),
              comprehensive |-> COMMODITIES_COMPREHENSIVE]

\* extract_all_commodities(data): a list is taken as it is; a dict with the
\* identifier is one commodity; any other dict is searched through its values.
RECURSIVE extract_all_commodities(_)
extract_all_commodities(data) ==
    IF IsList(data) THEN data.v
    ELSE IF IsDict(data) THEN
        IF HasKey(data, "wbscm_id") THEN <<data>>
        ELSE Flatten([i \in 1..Len(data.v) |-> extract_all_commodities(data.v[i][2])])
    ELSE <<>>

\* ------------------------------------------------------ stream handlers

\* The outcome of a call that may raise.
Raise(reason) == [raised |-> TRUE, reason |-> reason]
Return(x) == [raised |-> FALSE, value |-> x]

\* a * b as line 299 / 317 uses it, on the operands the requests of this model
\* carry (numbers and null): the product of two numbers is kept as its text,
\* None * n raises TypeError.
Mul(a, b) ==
    CASE a.t = "num" /\ b.t = "num" -> Return(JNum(a.v \o "*" \o b.v))
      [] a.t = "null" \/ b.t = "null" ->
            Raise("unsupported operand type(s) for *: 'NoneType' and 'int'")

\* f"{x:,}" and f"{x:,.2f}": a number formats, anything else raises.
Formats(x) == x.t = "num"

\* headers[name] = value on a header dict
SetHeader(headers, name, value) ==
    IF \E i \in 1..Len(headers) : headers[i][1] = name
    THEN [i \in 1..Len(headers) |-> IF headers[i][1] = name THEN <<name, value>> ELSE headers[i]]
    ELSE Append(headers, <<name, value>>)

\* A streaming response built without its headers argument.
StreamResponseBare(gen, headers) ==
    [status |-> 200, mimetype |-> "text/event-stream",
     headers |-> <<>>, body |-> JNull, gen |-> gen]

\* Response(generator, mimetype='text/event-stream', headers=headers)
StreamResponse(gen, headers) ==
    [status |-> 200, mimetype |-> "text/event-stream",
     headers |-> headers, body |-> JNull, gen |-> gen]

\* The headers lines 402-404 (and 444-446, 479-481, 505-507) build.
SseHeaders ==
    SetHeader(SetHeader(cors_headers, "Content-Type", "text/event-stream"),
              "Cache-Control", "no-cache")

\* stream_gemini(prompt, enable_code_execution): the generator object, not yet
\* started.
StreamGemini(prompt, enable_code_execution) ==
    [fn |-> "stream_gemini", prompt |-> prompt,
     enable_code_execution |-> enable_code_execution]

\* Lines 281-324 for one line item: the entry appended to items_data (an
\* option: None when the identifier is in neither source), or the exception.
ResolveItem(item) ==
    IF ~IsDict(item) THEN Raise("object has no attribute 'get'")
    ELSE
    LET comprehensive_products ==
            DictGet(COMMODITIES_COMPREHENSIVE, "all_products", JList(<<>>)).v
        legacy_commodities == extract_all_commodities(COMMODITIES_LEGACY)
        wbscm_id == PyStr(DictGet(item, "wbscm_id", JStr("")))
        quantity_cases ==
            DictGet(item, "quantity_cases", DictGet(item, "quantity_lbs", JNum("0")))
        Same(c) == PyStr(DictGet(c, "wbscm_id", JStr(""))) = wbscm_id
        commodity == FirstMatch(Same, comprehensive_products)
        legacy == FirstMatch(Same, legacy_commodities)
    IN  IF commodity # None /\ Truthy(commodity[1])
        THEN LET c == commodity[1]
                 case_weight == DictGet(c, "case_weight_lbs", JNum("40"))
                 lbs == Mul(quantity_cases, case_weight)
             IN  IF lbs.raised THEN lbs
                 ELSE Return(Some(JDict(<<
                        <<"wbscm_id", JStr(wbscm_id)>>,
                        <<"description", DictGet(c, "description", JStr("Unknown"))>>,
                        <<"quantity_cases", quantity_cases>>,
                        <<"case_weight_lbs", case_weight>>,
                        <<"quantity_lbs", lbs.value>>,
                        <<"servings_per_case", DictGet(c, "servings_per_case", JNull)>>,
                        <<"serving_size_oz", DictGet(c, "serving_size_oz", JNum("2.0"))>>,
                        <<"cn_credit_oz", DictGet(c, "cn_credit_oz", JNum("2.0"))>>,
                        <<"est_cost_per_lb", DictGet(c, "est_cost_per_lb", JNum("3.0"))>>,
                        <<"yield_factor", DictGet(c, "yield_factor", JNum("0.75"))>>,
                        <<"source", JStr("usda_product_sheet")>> >>)))
        ELSE IF legacy # None /\ Truthy(legacy[1])
        THEN LET l == legacy[1]
                 lbs == Mul(quantity_cases, JNum("40"))
             IN  IF lbs.raised THEN lbs
                 ELSE Return(Some(JDict(<<
                        <<"wbscm_id", JStr(wbscm_id)>>,
                        <<"description", DictGet(l, "description", JStr("Unknown"))>>,
                        <<"quantity_cases", quantity_cases>>,
                        <<"case_weight_lbs", JNum("40")>>,
                        <<"quantity_lbs", lbs.value>>,
                        <<"servings_per_case", JNull>>,
                        <<"est_cost_per_lb", DictGet(l, "est_cost_per_lb", JNum("3.0"))>>,
                        <<"yield_factor", DictGet(l, "yield_factor", JNum("0.75"))>>,
                        <<"source", JStr("legacy_estimate")>> >>)))
        ELSE Return(None)

\* The loop of lines 280-324: items_data after the items, or the first
\* exception an item raises.
RECURSIVE ResolveItems(_, _)

\* A loop that fails the batch at the first identifier found in no source.
ResolveOrFail(items, items_data) ==
    IF items = <<>> THEN Return(items_data)
    ELSE LET one == ResolveItem(Head(items))
         IN  IF one.raised THEN one
             ELSE IF one.value = None THEN Raise("Commodity not found")
             ELSE ResolveItems(Tail(items), items_data \o one.value)

ResolveItems(items, items_data) ==
    IF items = <<>> THEN Return(items_data)
    ELSE LET one == ResolveItem(Head(items))
         IN  IF one.raised THEN one
             ELSE ResolveItems(Tail(items), items_data \o one.value)

\* handle_stream_allocate(data)
handle_stream_allocate(data) ==
    IF ~IsDict(data) THEN Raise("object has no attribute 'get'")
    ELSE
    LET items == DictGet(data, "items", JList(<<>>))
        oz_per_serving == DictGet(data, "oz_per_serving", JNum("2.0"))
        annual_meals == DictGet(data, "annual_meals", JNum("3397500"))
    IN  IF items.t \in {"null", "num", "bool"} THEN Raise("object is not iterable")
        ELSE IF items.t \in {"str", "dict"} /\ Truthy(items)
        THEN Raise("'str' object has no attribute 'get'")
        ELSE
        LET resolved == ResolveItems(IF IsList(items) THEN items.v ELSE <<>>, <<>>)
        IN  IF resolved.raised THEN resolved
            ELSE IF resolved.value = <<>>
            THEN Return(StreamResponse([fn |-> "error_gen"], cors_headers))
            ELSE IF ~Formats(annual_meals)
            THEN Raise("Cannot specify ',' with 's'.")
            ELSE Return(StreamResponse(
                    StreamGemini([kind |-> "allocate",
                                  items_data |-> JList(resolved.value),
                                  oz_per_serving |-> oz_per_serving,
                                  annual_meals |-> annual_meals], JBool(TRUE)),
                    SetHeader(SseHeaders, "Connection", "keep-alive")))

\* handle_stream_compliance(data)
handle_stream_compliance(data) ==
    IF ~IsDict(data) THEN Raise("object has no attribute 'get'")
    ELSE
    LET week_menu == DictGet(data, "week_menu", JDict(<<>>))
        grade_group == DictGet(data, "grade_group", JStr("elementary"))
        fallback == DictGet(MEAL_PATTERNS, "elementary", JDict(<<>>))
    IN  IF grade_group.t \in {"list", "dict"} THEN Raise("unhashable type")
        ELSE Return(StreamResponse(
                StreamGemini([kind |-> "compliance", week_menu |-> week_menu,
                              grade_group |-> grade_group,
                              meal_requirements |->
                                  IF grade_group.t = "str"
                                  THEN DictGet(MEAL_PATTERNS, grade_group.v, fallback)
                                  ELSE fallback], JBool(TRUE)),
                SseHeaders))

\* handle_stream_budget(data)
handle_stream_budget(data) ==
    IF ~IsDict(data) THEN Raise("object has no attribute 'get'")
    ELSE
    LET total_spend == DictGet(data, "total_commodity_spend", JNum("185000"))
        annual_meals == DictGet(data, "total_annual_meals", JNum("3397500"))
    IN  IF ~Formats(total_spend) \/ ~Formats(annual_meals)
        THEN Raise("Unknown format code 'f' for object of type 'str'")
        ELSE Return(StreamResponse(
                StreamGemini([kind |-> "budget",
                              rates |-> DictGet(DISTRICT_PROFILE, "reimbursement_rates", JDict(<<>>)),
                              demographics |-> DictGet(DISTRICT_PROFILE, "demographics", JDict(<<>>)),
                              total_spend |-> total_spend, annual_meals |-> annual_meals,
                              other_food |-> DictGet(data, "other_food_cost_per_meal", JNum("0.65")),
                              labor |-> DictGet(data, "labor_overhead_per_meal", JNum("1.50"))],
                             JBool(TRUE)),
                SseHeaders))

\* handle_stream_entitlement(data)
handle_stream_entitlement(data) ==
    IF ~IsDict(data) THEN Raise("object has no attribute 'get'")
    ELSE
    LET total_entitlement == DictGet(DISTRICT_PROFILE, "total_entitlement", JNum("485000"))
        annual_meals == DictGet(DISTRICT_PROFILE, "total_annual_meals", JNum("3397500"))
    IN  IF ~Formats(total_entitlement) \/ ~Formats(annual_meals)
        THEN Raise("Cannot specify ',' with 's'.")
        ELSE Return(StreamResponse(
                StreamGemini([kind |-> "entitlement",
                              total_entitlement |-> total_entitlement,
                              annual_meals |-> annual_meals,
                              allocations |-> DictGet(data, "allocations", JDict(<<>>))],
                             JBool(TRUE)),
                SseHeaders))

\* handle_stream_chat(data)
handle_stream_chat(data) ==
    IF ~IsDict(data) THEN Raise("object has no attribute 'get'")
    ELSE Return(StreamResponse(
            StreamGemini([kind |-> "chat",
                          context |-> DictGet(data, "context", JStr("")),
                          message |-> DictGet(data, "message", JStr(""))],
                         DictGet(data, "enable_code_execution", JBool(TRUE))),
            SseHeaders))

\* ------------------------------------------------------------ dispatcher

\* A request path is the sequence of its segments: '' is <<>>, '/' is <<"">>,
\* '/api/commodities/beef/' is <<"api", "commodities", "beef", "">>.
RECURSIVE Join(_)
Join(segs) ==
    IF segs = <<>> THEN ""
    ELSE Head(segs) \o (IF Len(segs) > 1 THEN "/" ELSE "") \o Join(Tail(segs))
PathStr(path) == IF path = <<>> THEN "" ELSE "/" \o Join(path)

\* path.startswith('/api/commodities/')
IsCommoditiesPrefix(path) ==
    Len(path) >= 3 /\ path[1] = "api" /\ path[2] = "commodities"

\* path.split('/api/commodities/')[-1]: the segments after the last occurrence
\* found scanning from the left (an occurrence takes both of its slashes).
RECURSIVE LastPiece(_, _, _)
LastPiece(path, i, start) ==
    IF i + 2 > Len(path) THEN SubSeq(path, start, Len(path))
    ELSE IF path[i] = "api" /\ path[i + 1] = "commodities"
         THEN LastPiece(path, i + 3, i + 2)
         ELSE LastPiece(path, i + 1, start)

\* s.strip('/') on a piece given by its segments, as a string
RECURSIVE StripSlashes(_)
StripSlashes(segs) ==
    IF segs = <<>> THEN ""
    ELSE IF Head(segs) = "" THEN StripSlashes(Tail(segs))
    ELSE IF segs[Len(segs)] = "" THEN StripSlashes(SubSeq(segs, 1, Len(segs) - 1))
    ELSE Join(segs)

CategoryOfPath(path) == StripSlashes(LastPiece(path, 1, 1))

StreamRoutes ==
    { <<"api", "stream", "allocate">>, <<"api", "stream", "compliance">>,
      <<"api", "stream", "budget">>, <<"api", "stream", "entitlement">>,
      <<"api", "stream", "chat">> }

\* Line 549: the streaming endpoints are looked at for this method only.
ParsesBody(method) == method = "POST"

\* Lines 552-565: the handler of a stream route.
StreamHandler(path, data) ==
    CASE path = <<"api", "stream", "allocate">> -> handle_stream_allocate(data)
      [] path = <<"api", "stream", "compliance">> -> handle_stream_compliance(data)
      [] path = <<"api", "stream", "budget">> -> handle_stream_budget(data)
      [] path = <<"api", "stream", "entitlement">> -> handle_stream_entitlement(data)
      [] path = <<"api", "stream", "chat">> -> handle_stream_chat(data)

NotFound(path) == JsonResponse(JDict(<< <<"error", JStr("Not found: " \o PathStr(path))>> >>), 404)

\* The body of main's try block (lines 526-568).  body is what
\* request.get_json() does: [ok |-> FALSE, reason] when it raises, else
\* [ok |-> TRUE, json].  The result says what was returned or raised, whether
\* the body was parsed, and COMMODITIES_COMPREHENSIVE as the call leaves it.
Route(method, path, body) ==
    LET same == COMMODITIES_COMPREHENSIVE
        Out(result, parsed, comprehensive) ==
            [result |-> result, parsed |-> parsed, comprehensive |-> comprehensive]
    IN  IF path = <<"">> \/ path = <<>>
        THEN Out(Return(JsonResponse(
                    JDict(<< <<"status", JStr("healthy")>>,
                             <<"service", JStr("Chef Ann Commodity Planning API")>>,
                             <<"version", JStr("1.0.0")>> >>), 200)), FALSE, same)
        ELSE IF path = <<"api", "commodities">>
        THEN Out(Return(handle_commodities(None).resp), FALSE,
                 handle_commodities(None).comprehensive)
        ELSE IF IsCommoditiesPrefix(path)
        THEN Out(Return(handle_commodities(Some(CategoryOfPath(path))).resp), FALSE,
                 handle_commodities(Some(CategoryOfPath(path))).comprehensive)
        ELSE IF path = <<"api", "district-profile">>
        THEN Out(Return(JsonResponse(DISTRICT_PROFILE, 200)), FALSE, same)
        ELSE IF path = <<"api", "meal-patterns">>
        THEN Out(Return(JsonResponse(MEAL_PATTERNS, 200)), FALSE, same)
        ELSE IF ParsesBody(method)
        THEN IF ~body.ok THEN Out(Raise(body.reason), TRUE, same)
             ELSE LET data == IF Truthy(body.json) THEN body.json ELSE JDict(<<>>)
                  IN  IF path \in StreamRoutes
                      THEN Out(StreamHandler(path, data), TRUE, same)
                      ELSE Out(Return(NotFound(path)), TRUE, same)
        ELSE Out(Return(NotFound(path)), FALSE, same)

\* A dispatcher that sends preflight requests through the routes.
NeverPreflight(method) == FALSE

\* Line 517: the CORS preflight test.
IsPreflight(method) == method = "OPTIONS"

\* main(request): the response, with what the call did on its way.
\*   raised  whether an exception was raised inside the try block
\*   parsed  whether request.get_json() was called
main(method, path, body) ==
    IF IsPreflight(method)
    THEN [resp |-> [status |-> 204, mimetype |-> "text/html", headers |-> cors_headers,
                    body |-> JStr(""), gen |-> [fn |-> "none"]],
          raised |-> FALSE, reason |-> "", parsed |-> FALSE, routed |-> FALSE,
          comprehensive |-> COMMODITIES_COMPREHENSIVE]
    ELSE LET r == Route(method, path, body)
         IN  IF r.result.raised
             THEN [resp |-> JsonResponse(JDict(<< <<"error", JStr(r.result.reason)>> >>), 500),
                   raised |-> TRUE, reason |-> r.result.reason, parsed |-> r.parsed,
                   routed |-> TRUE, comprehensive |-> r.comprehensive]
             ELSE [resp |-> r.result.value, raised |-> FALSE, reason |-> "",
                   parsed |-> r.parsed, routed |-> TRUE,
                   comprehensive |-> r.comprehensive]

\* ------------------------------------------------------- upstream stream

\* A part of a chunk: each attribute is None or set.
Part(text, executable_code, code_execution_result) ==
    [text |-> text, executable_code |-> executable_code,
     code_execution_result |-> code_execution_result]
ExecutableCode(code) == [code |-> code]
CodeExecutionResult(output, outcome) == [output |-> output, outcome |-> outcome]

\* A chunk with one candidate whose content holds these parts.
ChunkOf(parts) == [candidates |-> Some(<< [content |-> Some([parts |-> Some(parts)])] >>)]
ChunkNoCandidates == [candidates |-> None]
ChunkEmptyCandidates == [candidates |-> Some(<<>>)]
ChunkNoContent == [candidates |-> Some(<< [content |-> None] >>)]
ChunkEmptyParts == ChunkOf(<<>>)

TextA == Part(Some("A"), None, None)
CodeOnly == Part(None, Some(ExecutableCode(Some("print(1)"))), None)
ResultOnly == Part(None, None, Some(CodeExecutionResult(Some("1"), Some("OUTCOME_OK"))))
AllKinds == Part(Some("B"), Some(ExecutableCode(Some("x=2"))),
                 Some(CodeExecutionResult(None, Some("OUTCOME_FAILED"))))
EmptyText == Part(Some(""), None, None)

\* The chunks the upstream may send.
Chunks ==
    { ChunkNoCandidates, ChunkEmptyCandidates, ChunkNoContent, ChunkEmptyParts,
      ChunkOf(<<TextA>>), ChunkOf(<<AllKinds>>),
      ChunkOf(<<CodeOnly, ResultOnly>>), ChunkOf(<<EmptyText, TextA>>) }

\* Line 142 negated: the chunk has candidates, content and parts.
Usable(chunk) ==
    /\ chunk.candidates # None
    /\ chunk.candidates[1] # <<>>
    /\ chunk.candidates[1][1].content # None
    /\ chunk.candidates[1][1].content[1].parts # None
    /\ chunk.candidates[1][1].content[1].parts[1] # <<>>

PartsOf(chunk) == chunk.candidates[1][1].content[1].parts[1]

\* str(outcome) of the Outcome enumeration, and of None
StrOutcome(outcome) == IF outcome = None THEN "None" ELSE "Outcome." \o outcome[1]

\* An optional string as JSON: None is null.
JOpt(x) == IF x = None THEN JNull ELSE JStr(x[1])

\* ------------------------------------------------------------ SSE relay

Runs == {"r1", "r2"}
RunOrder == <<"r1", "r2">>

\* The tests on a part with the code looked at first.
KindsCodeFirst == <<"code", "text", "result">>

\* Lines 146-159: the three tests made on a part, in the order of the code.
Kinds == <<"text", "code", "result">>

\* The most chunks the upstreams of all runs send together.
MaxPulls == 3

VARIABLES
    last,     \* the main() call that has just returned: request and response
    pc,       \* per run: where its generator stands
    fn,       \* per run: the generator function of the response body
    pos,      \* per run: the chunk in hand, the part and the kind looked at
    result,   \* per aggregate: the `result` dict of stream_gemini
    out,      \* per run: the events handed downstream, in order
    pulled,   \* per run: the chunks received from the upstream, in order
    calls     \* per run: the generate_content_stream calls made

relay == <<pc, fn, pos, result, out, pulled, calls>>
vars == <<store, loaded, environ, OUTPUT_FILE, last, relay>>

NoCall == [called |-> FALSE]
NoPos == [parts |-> <<>>, i |-> 0, k |-> 0]
EmptyAggregate == [text |-> "", code_blocks |-> <<>>, code_results |-> <<>>]

\* One aggregate shared by all runs (a module-level `result`).
SharedAggregate(r) == "r1"

\* Line 134: every call of stream_gemini binds `result` to a dict of its own.
AggregateOf(r) == r

Event(type, data) == [type |-> type, data |-> data]

\* A `done` event that carries the text only.
AggregateText(agg) == JStr(agg.text)

\* json.dumps of the aggregate
AggregateJson(agg) ==
    JDict(<< <<"text", JStr(agg.text)>>, <<"code_blocks", JList(agg.code_blocks)>>,
             <<"code_results", JList(agg.code_results)>> >>)

RECURSIVE PulledBy(_)
PulledBy(rs) == IF rs = <<>> THEN 0 ELSE Len(pulled[Head(rs)]) + PulledBy(Tail(rs))
TotalPulled == PulledBy(RunOrder)

\* -------------------------------------------------------------- requests

Methods == {"GET", "POST", "OPTIONS", "DELETE"}

Paths ==
    { <<"">>, <<"api", "commodities">>, <<"api", "commodities", "beef">>,
      <<"api", "commodities", "dairy">>, <<"api", "commodities", "nope">>,
      <<"api", "commodities", "">>, <<"api", "commodities", "dairy", "">>,
      <<"api", "commodities", "x", "api", "commodities", "beef">>,
      <<"api", "district-profile">>, <<"api", "meal-patterns">>,
      <<"api", "stream">>, <<"api", "stream", "chat", "">>, <<"healthz">> }
    \cup StreamRoutes

Item(id, cases) == JDict(<< <<"wbscm_id", id>>, <<"quantity_cases", cases>> >>)

\* What request.get_json() gives for the bodies a POST may carry.
BadBody == [ok |-> FALSE, json |-> JNull,
            reason |-> "400 Bad Request: Failed to decode JSON object"]
Json(x) == [ok |-> TRUE, json |-> x, reason |-> ""]
Bodies ==
    { BadBody,
      Json(JNull),
      Json(JList(<<JNum("1")>>)),
      Json(JDict(<< <<"items", JList(<<Item(JStr("100"), JNum("2"))>>)>>,
                    <<"message", JStr("hi")>> >>)),
      Json(JDict(<< <<"items", JList(<<Item(JStr("999"), JNum("1"))>>)>> >>)),
      Json(JDict(<< <<"items", JList(<<Item(JStr("100"), JNum("2")),
                                       Item(JStr("999"), JNum("1")),
                                       Item(JNum("200"), JNum("5")),
                                       Item(JStr("100"), JNum("2"))>>)>>,
                    <<"grade_group", JStr("high")>>,
                    <<"enable_code_execution", JBool(FALSE)>> >>)),
      Json(JDict(<< <<"items", JList(<<Item(JStr("100"), JNull)>>)>> >>)),
      Json(JDict(<< <<"items", JList(<<Item(JNull, JNum("1"))>>)>> >>)),
      Json(JDict(<< <<"items", JList(<<Item(JStr("200"), JNum("1"))>>)>>,
                    <<"annual_meals", JStr("many")>>,
                    <<"total_commodity_spend", JStr("lots")>> >>)) }

\* A request without a body.
NoBody == Json(JNull)

\* The bodies the requests of a method carry in this model.
BodiesOf(method) ==
    CASE method = "POST" -> Bodies
      [] method = "OPTIONS" -> {NoBody, BadBody}
      [] OTHER -> {NoBody}

\* What a stream handler builds for a payload in the current state: the
\* exception it raises, or the generator of its response with the prompt.
PromptNow(path, data) ==
    LET h == StreamHandler(path, data)
    IN  IF h.raised THEN [raised |-> TRUE, gen |-> [fn |-> "none"]]
        ELSE [raised |-> FALSE, gen |-> h.value.gen]

\* The payloads the prompts are compared on: two per operation kind.
ProbePayloads ==
    { JDict(<< <<"items", JList(<<Item(JStr("100"), JNum("2")),
                                  Item(JStr("999"), JNum("1")),
                                  Item(JNum("200"), JNum("5"))>>)>>,
               <<"grade_group", JStr("high")>>,
               <<"allocations", JDict(<< <<"beef", JNum("1000")>> >>)>> >>),
      JDict(<< <<"items", JList(<<Item(JStr("120"), JNum("1"))>>)>>,
               <<"message", JStr("hi")>> >>) }

\* History: what every stream handler builds for each probe payload in the
\* current state.
ProbePrompts ==
    [probe \in StreamRoutes \X ProbePayloads |-> PromptNow(probe[1], probe[2])]

\* The first run that holds no generator yet, as an option.
FreeRun ==
    LET free == {i \in 1..Len(RunOrder) : pc[RunOrder[i]] = "none"}
    IN  IF free = {} THEN None
        ELSE Some(RunOrder[CHOOSE i \in free : \A j \in free : i <= j])

\* The instance serves no request: no call of main is open and no generator
\* is left to run.
Idle == last = NoCall /\ \A r \in Runs : pc[r] = "none"

\* One request is handled by main: the response is returned, and a streaming
\* response leaves its generator to be run by the server.
Dispatch(method, path, body) ==
    /\ Idle
    /\ \E m \in {main(method, path, body)} :
        LET streams == m.resp.gen.fn # "none"
        IN  /\ last' = [called |-> TRUE, method |-> method, path |-> path,
                        body |-> body, resp |-> m.resp, raised |-> m.raised,
                        reason |-> m.reason, parsed |-> m.parsed,
                        routed |-> m.routed,
                        run |-> IF streams THEN FreeRun ELSE None,
                        prompts_before |-> ProbePrompts]
            /\ COMMODITIES_COMPREHENSIVE' = m.comprehensive
            /\ IF streams
               THEN /\ pc' = [pc EXCEPT ![FreeRun[1]] = "created"]
                    /\ fn' = [fn EXCEPT ![FreeRun[1]] = m.resp.gen.fn]
               ELSE UNCHANGED <<pc, fn>>
    /\ UNCHANGED <<COMMODITIES_LEGACY, MEAL_PATTERNS, DISTRICT_PROFILE,
                   FBG_YIELDS, COST_LOOKUP, loaded, environ, OUTPUT_FILE>>
    /\ UNCHANGED <<pos, result, out, pulled, calls>>

Request ==
    \E method \in Methods, path \in Paths :
        \E body \in BodiesOf(method) :
            Dispatch(method, path, body)

\* The server takes the response main returned.
Respond ==
    /\ last # NoCall
    /\ last' = NoCall
    /\ UNCHANGED <<store, loaded, environ, OUTPUT_FILE, relay>>

Terminal == {"finished", "done", "failed", "escaped"}

\* The generator of a streaming response has ended and the response is closed:
\* its locals are gone.
Close(r) ==
    /\ last = NoCall
    /\ pc[r] \in Terminal
    /\ pc' = [pc EXCEPT ![r] = "none"]
    /\ fn' = [fn EXCEPT ![r] = "none"]
    /\ pos' = [pos EXCEPT ![r] = NoPos]
    /\ result' = [result EXCEPT ![AggregateOf(r)] = EmptyAggregate]
    /\ out' = [out EXCEPT ![r] = <<>>]
    /\ pulled' = [pulled EXCEPT ![r] = <<>>]
    /\ calls' = [calls EXCEPT ![r] = 0]
    /\ UNCHANGED <<store, loaded, environ, OUTPUT_FILE, last>>

\* ----------------------------------------------------------- relay steps

\* yield: the event is handed downstream.
Yield(r, event) == out' = [out EXCEPT ![r] = Append(@, event)]

RelayFrame == /\ last = NoCall
              /\ UNCHANGED <<store, loaded, environ, OUTPUT_FILE, last>>

\* An error_gen that ends without its event.
ErrorGenSilent(r) ==
    /\ pc[r] = "created" /\ fn[r] = "error_gen"
    /\ pc' = [pc EXCEPT ![r] = "finished"]
    /\ UNCHANGED <<fn, pos, result, out, pulled, calls>>
    /\ RelayFrame

\* error_gen (lines 327-328): its one event, then the generator ends.
ErrorGen(r) ==
    /\ pc[r] = "created" /\ fn[r] = "error_gen"
    /\ Yield(r, Event("error", JStr("No valid commodities found")))
    /\ pc' = [pc EXCEPT ![r] = "finished"]
    /\ UNCHANGED <<fn, pos, result, pulled, calls>>
    /\ RelayFrame

\* Lines 117-134 run: the client, the tools, the config, the contents and a
\* fresh aggregate.
RelaySetup(r) ==
    /\ pc[r] = "created" /\ fn[r] = "stream_gemini"
    /\ pc' = [pc EXCEPT ![r] = "call"]
    /\ result' = [result EXCEPT ![AggregateOf(r)] = EmptyAggregate]
    /\ UNCHANGED <<fn, pos, out, pulled, calls>>
    /\ RelayFrame

\* Lines 117-132 raise (get_client, the config or the contents): the statements
\* stand before the try of line 136, so the exception leaves the generator.
RelaySetupRaise(r) ==
    /\ pc[r] = "created" /\ fn[r] = "stream_gemini"
    /\ pc' = [pc EXCEPT ![r] = "escaped"]
    /\ UNCHANGED <<fn, pos, result, out, pulled, calls>>
    /\ RelayFrame

\* except Exception swallowed: the generator ends without an event.
FailSilently(r, reason) ==
    /\ pc' = [pc EXCEPT ![r] = "failed"]
    /\ UNCHANGED out

\* except Exception (lines 163-165): the failure goes out as one `error`
\* event and the generator ends.
Fail(r, reason) ==
    /\ Yield(r, Event("error", JStr(reason)))
    /\ pc' = [pc EXCEPT ![r] = "failed"]

\* A relay that never gets to its upstream call.
UpstreamCallWaits(r) ==
    /\ pc[r] = "call"
    /\ UNCHANGED <<fn, pos, result, out, pulled, calls, pc>>
    /\ RelayFrame

\* Lines 137-141: the try block is entered and generate_content_stream is
\* called; the call gets through only with credentials the client can use.
UpstreamCall(r) ==
    /\ pc[r] = "call"
    /\ environ.credentials
    /\ calls' = [calls EXCEPT ![r] = @ + 1]
    /\ pc' = [pc EXCEPT ![r] = "pull"]
    /\ UNCHANGED <<fn, pos, result, out, pulled>>
    /\ RelayFrame

\* The call of generate_content_stream raises (before the first chunk).
UpstreamCallRaise(r) ==
    /\ pc[r] = "call"
    /\ calls' = [calls EXCEPT ![r] = @ + 1]
    /\ Fail(r, "upstream call failed")
    /\ UNCHANGED <<fn, pos, result, pulled>>
    /\ RelayFrame

\* A relay that reads ahead: it takes the next chunk while parts of the chunk
\* in hand are still to be relayed.
CanPullEarly(r) == pc[r] \in {"pull", "part"}

\* Line 137: the loop asks the upstream for its next chunk only between chunks.
CanPull(r) == pc[r] = "pull"

\* A loop that ends at a chunk without usable content (break).
AfterSkipStop == "done"

\* Line 143: continue, the loop goes on to the next chunk.
AfterSkip == "pull"

\* Line 137 yields a chunk; line 142 skips one without usable content.
RelayPull(r, chunk) ==
    /\ CanPull(r)
    /\ TotalPulled < MaxPulls
    /\ pulled' = [pulled EXCEPT ![r] = Append(@, chunk)]
    /\ IF Usable(chunk)
       THEN /\ pc' = [pc EXCEPT ![r] = "part"]
            /\ pos' = [pos EXCEPT ![r] = [parts |-> PartsOf(chunk), i |-> 1, k |-> 1]]
       ELSE /\ pc' = [pc EXCEPT ![r] = AfterSkip]
            /\ pos' = [pos EXCEPT ![r] = NoPos]
    /\ UNCHANGED <<fn, result, out, calls>>
    /\ RelayFrame

\* A `text` event that carries the text gathered so far.
TextEventCumulative(fragment, text) == Event("text", JStr(text))

\* Line 148: the `text` event carries the fragment of this part.
TextEvent(fragment, text) == Event("text", JStr(fragment))

\* The position after kind k of part i.
NextPos(p) ==
    IF p.k < Len(Kinds) THEN [p EXCEPT !.k = p.k + 1]
    ELSE IF p.i < Len(p.parts) THEN [p EXCEPT !.i = p.i + 1, !.k = 1]
    ELSE NoPos

\* Lines 146-159 for one kind of the part in hand: when the part carries it,
\* the aggregate takes it and its event is yielded.
RelayPart(r) ==
    LET p == pos[r]
        part == p.parts[p.i]
        agg == result[AggregateOf(r)]
        next == NextPos(p)
    IN  /\ pc[r] = "part"
        /\ CASE Kinds[p.k] = "text" ->
                  IF part.text # None /\ part.text[1] # ""
                  THEN /\ result' = [result EXCEPT ![AggregateOf(r)] =
                                        [agg EXCEPT !.text = @ \o part.text[1]]]
                       /\ Yield(r, TextEvent(part.text[1], agg.text \o part.text[1]))
                  ELSE UNCHANGED <<result, out>>
             [] Kinds[p.k] = "code" ->
                  IF part.executable_code # None
                  THEN LET code == JOpt(part.executable_code[1].code)
                       IN  /\ result' = [result EXCEPT ![AggregateOf(r)] =
                                            [agg EXCEPT !.code_blocks = Append(@, code)]]
                           /\ Yield(r, Event("code", code))
                  ELSE UNCHANGED <<result, out>>
             [] Kinds[p.k] = "result" ->
                  IF part.code_execution_result # None
                  THEN LET res == JDict(<<
                              <<"output", JOpt(part.code_execution_result[1].output)>>,
                              <<"outcome",
                                JStr(StrOutcome(part.code_execution_result[1].outcome))>> >>)
                       IN  /\ result' = [result EXCEPT ![AggregateOf(r)] =
                                            [agg EXCEPT !.code_results = Append(@, res)]]
                           /\ Yield(r, Event("result", res))
                  ELSE UNCHANGED <<result, out>>
        /\ pos' = [pos EXCEPT ![r] = next]
        /\ pc' = [pc EXCEPT ![r] = IF next = NoPos THEN "pull" ELSE "part"]
        /\ UNCHANGED <<fn, pulled, calls>>
        /\ RelayFrame

\* The generator ends at exhaustion without its closing event.
RelayEndsSilently(r) ==
    /\ CanPull(r)
    /\ pc' = [pc EXCEPT ![r] = "done"]
    /\ UNCHANGED <<fn, pos, result, out, pulled, calls>>
    /\ RelayFrame

\* Line 161: the upstream is exhausted, the aggregate goes out as `done`.
RelayDone(r) ==
    /\ CanPull(r)
    /\ Yield(r, Event("done", AggregateJson(result[AggregateOf(r)])))
    /\ pc' = [pc EXCEPT ![r] = "done"]
    /\ UNCHANGED <<fn, pos, result, pulled, calls>>
    /\ RelayFrame

\* A relay that calls the upstream again when the stream fails.
UpstreamRaiseRetry(r) ==
    /\ CanPull(r)
    /\ pc' = [pc EXCEPT ![r] = "call"]
    /\ UNCHANGED <<fn, pos, result, out, pulled, calls>>
    /\ RelayFrame

\* The upstream raises when asked for its next chunk.
UpstreamRaise(r) ==
    /\ CanPull(r)
    /\ Fail(r, "upstream stream failed")
    /\ UNCHANGED <<fn, pos, result, pulled, calls>>
    /\ RelayFrame

\* An exception while a part of the chunk in hand is processed.
PartRaise(r) ==
    /\ pc[r] = "part"
    /\ Fail(r, "part failed")
    /\ UNCHANGED <<fn, pos, result, pulled, calls>>
    /\ RelayFrame

Init ==
    /\ LoadData
    /\ Import(Environments)
    /\ NoExtraction
    /\ last = NoCall
    /\ pc = [r \in Runs |-> "none"]
    /\ fn = [r \in Runs |-> "none"]
    /\ pos = [r \in Runs |-> NoPos]
    /\ result = [r \in Runs |-> EmptyAggregate]
    /\ out = [r \in Runs |-> <<>>]
    /\ pulled = [r \in Runs |-> <<>>]
    /\ calls = [r \in Runs |-> 0]

Next ==
    \/ Request
    \/ Respond
    \/ \E r \in Runs : Close(r)
    \/ \E r \in Runs : ErrorGen(r)
    \/ \E r \in Runs : RelaySetup(r)
    \/ \E r \in Runs : RelaySetupRaise(r)
    \/ \E r \in Runs : UpstreamCall(r)
    \/ \E r \in Runs : UpstreamCallRaise(r)
    \/ \E r \in Runs : \E chunk \in Chunks : RelayPull(r, chunk)
    \/ \E r \in Runs : RelayPart(r)
    \/ \E r \in Runs : RelayDone(r)
    \/ \E r \in Runs : UpstreamRaise(r)
    \/ \E r \in Runs : PartRaise(r)

\* The function instance serving one request after the other.
Spec == Init /\ [][Next]_vars

\* Two streaming responses in flight on a server that runs their generators
\* concurrently: every interleaving of the steps of the two relay runs.
InitConcurrent ==
    /\ LoadData
    /\ Import({DeployedEnvironment})
    /\ NoExtraction
    /\ last = NoCall
    /\ pc = [r \in Runs |-> "created"]
    /\ fn = [r \in Runs |-> "stream_gemini"]
    /\ pos = [r \in Runs |-> NoPos]
    /\ result = [r \in Runs |-> EmptyAggregate]
    /\ out = [r \in Runs |-> <<>>]
    /\ pulled = [r \in Runs |-> <<>>]
    /\ calls = [r \in Runs |-> 0]

\* The chunks the two upstreams send: one that is skipped, and three whose
\* texts, code and results tell the runs apart.
ConcurrentChunks ==
    { ChunkNoCandidates, ChunkOf(<<TextA>>), ChunkOf(<<AllKinds>>),
      ChunkOf(<<CodeOnly, ResultOnly>>) }

NextConcurrent ==
    \/ \E r \in Runs : RelaySetup(r)
    \/ \E r \in Runs : RelaySetupRaise(r)
    \/ \E r \in Runs : UpstreamCall(r)
    \/ \E r \in Runs : UpstreamCallRaise(r)
    \/ \E r \in Runs : \E chunk \in ConcurrentChunks : RelayPull(r, chunk)
    \/ \E r \in Runs : RelayPart(r)
    \/ \E r \in Runs : RelayDone(r)
    \/ \E r \in Runs : UpstreamRaise(r)
    \/ \E r \in Runs : PartRaise(r)

SpecConcurrent == InitConcurrent /\ [][NextConcurrent]_vars

\* The steps the interpreter takes on its own once the server iterates the
\* generator: the call of line 137 and the body of the loop (lines 145-159).
RelayStep(r) == UpstreamCall(r) \/ RelayPart(r)

\* What the upstream answers when asked for its next chunk: a chunk, the end
\* of the stream, or a failure.
UpstreamResponds(r) ==
    \/ \E chunk \in ConcurrentChunks : RelayPull(r, chunk)
    \/ RelayDone(r)
    \/ UpstreamRaise(r)

\* One streaming response in flight: main has returned it and the server is
\* about to iterate its generator.
InitRelay ==
    /\ LoadData
    /\ Import({DeployedEnvironment})
    /\ NoExtraction
    /\ last = NoCall
    /\ pc = [r \in Runs |-> IF r = "r1" THEN "created" ELSE "none"]
    /\ fn = [r \in Runs |-> IF r = "r1" THEN "stream_gemini" ELSE "none"]
    /\ pos = [r \in Runs |-> NoPos]
    /\ result = [r \in Runs |-> EmptyAggregate]
    /\ out = [r \in Runs |-> <<>>]
    /\ pulled = [r \in Runs |-> <<>>]
    /\ calls = [r \in Runs |-> 0]

\* The relay run on a server that keeps iterating its generator, against an
\* upstream that answers every request for a chunk and ends or fails after at
\* most MaxPulls chunks.
SpecTerminating ==
    /\ InitRelay /\ [][NextConcurrent]_vars
    /\ \A r \in Runs : WF_vars(RelayStep(r)) /\ WF_vars(UpstreamResponds(r))

\* ---------------------------------------------------- flattening alone

\* The widest list the documents below hold.
MaxWidth == 2

RecA == JDict(<< <<"wbscm_id", JStr("1")>>, <<"description", JStr("a")>> >>)
RecB == JDict(<< <<"wbscm_id", JStr("2")>>, <<"est_cost_per_lb", JNum("1.00")>> >>)

\* Lists of at most MaxWidth nodes and one-key mappings over a set of nodes.
ListsOver(nodes) ==
    UNION {{JList(s) : s \in [1..n -> nodes]} : n \in 0..MaxWidth}
GroupsOver(nodes) == {JDict(<< <<"group", x>> >>) : x \in nodes}

\* Reference documents: a scalar and two records, nested in lists and
\* mappings, and those nested once more: in a mapping, alone in a list, or in
\* a list before a scalar or a record.
Leaves == {JNum("7"), RecA, RecB}
Nested == Leaves \cup ListsOver(Leaves) \cup GroupsOver(Leaves)
Documents ==
    Nested \cup GroupsOver(Nested)
           \cup {JList(<<x>>) : x \in Nested}
           \cup {JList(<<x, y>>) : x \in Nested, y \in Leaves}

\* A legacy file of any of these shapes is loaded.
InitFlatten ==
    /\ \E doc \in Documents :
          /\ COMMODITIES_LEGACY = doc
          /\ COST_LOOKUP = _build_cost_lookup(doc)
          /\ loaded = <<EmptyDoc, doc, EmptyDoc, EmptyDoc, EmptyDoc,
                        _build_cost_lookup(doc)>>
    /\ COMMODITIES_COMPREHENSIVE = EmptyDoc
    /\ MEAL_PATTERNS = EmptyDoc
    /\ DISTRICT_PROFILE = EmptyDoc
    /\ FBG_YIELDS = EmptyDoc
    /\ Import({DeployedEnvironment})
    /\ NoExtraction
    /\ last = NoCall
    /\ pc = [r \in Runs |-> "none"]
    /\ fn = [r \in Runs |-> "none"]
    /\ pos = [r \in Runs |-> NoPos]
    /\ result = [r \in Runs |-> EmptyAggregate]
    /\ out = [r \in Runs |-> <<>>]
    /\ pulled = [r \in Runs |-> <<>>]
    /\ calls = [r \in Runs |-> 0]

\* Line 275: legacy_commodities = extract_all_commodities(COMMODITIES_LEGACY)
ExtractLegacy ==
    /\ last = NoCall
    /\ last' = [called |-> TRUE, fn |-> "extract_all_commodities",
                ret |-> extract_all_commodities(COMMODITIES_LEGACY)]
    /\ UNCHANGED <<store, loaded, environ, OUTPUT_FILE, relay>>

NextFlatten == ExtractLegacy

SpecFlatten == InitFlatten /\ [][NextFlatten]_vars

\* ------------------------------------------------------ category listing

\* The categories the comprehensive documents of the listing check may hold,
\* each with its list of records: one record, two records of which one twice
\* the same, and an empty list.
CatalogCategories == <<"beef", "dairy", "cheese", "eggs">>
CatalogList(cat) ==
    CASE cat = "beef" -> <<CompBeef>>
      [] cat = "dairy" -> <<CompYogurt>>
      [] cat = "cheese" -> <<CompCheese, CompCheese>>
      [] cat = "eggs" -> <<>>

\* The comprehensive document that holds these categories.
CatalogOf(cats) ==
    LET Held(cat) == cat \in cats
        held == SelectSeq(CatalogCategories, Held)
    IN  JDict(<< <<"products_by_category",
                   JDict([i \in 1..Len(held) |-> <<held[i], JList(CatalogList(held[i]))>>])>> >>)

\* The comprehensive documents: every choice of categories, and the empty
\* document of a missing file.
CatalogDocuments ==
    {EmptyDoc} \cup {CatalogOf(cats) : cats \in SUBSET {"beef", "dairy", "cheese", "eggs"}}

InitCatalog ==
    /\ COMMODITIES_COMPREHENSIVE \in CatalogDocuments
    /\ COMMODITIES_LEGACY = SampleLegacy
    /\ MEAL_PATTERNS = EmptyDoc
    /\ DISTRICT_PROFILE = EmptyDoc
    /\ FBG_YIELDS = EmptyDoc
    /\ COST_LOOKUP = _build_cost_lookup(SampleLegacy)
    /\ loaded = <<COMMODITIES_COMPREHENSIVE, SampleLegacy, EmptyDoc, EmptyDoc, EmptyDoc,
                  _build_cost_lookup(SampleLegacy)>>
    /\ Import({DeployedEnvironment})
    /\ NoExtraction
    /\ last = NoCall
    /\ pc = [r \in Runs |-> "none"]
    /\ fn = [r \in Runs |-> "none"]
    /\ pos = [r \in Runs |-> NoPos]
    /\ result = [r \in Runs |-> EmptyAggregate]
    /\ out = [r \in Runs |-> <<>>]
    /\ pulled = [r \in Runs |-> <<>>]
    /\ calls = [r \in Runs |-> 0]

\* A GET request of the model is handled.
GetRequest == \E path \in Paths : Dispatch("GET", path, NoBody)

NextCatalog == GetRequest \/ Respond

\* The service answering GET requests over each of the documents.
SpecCatalog == InitCatalog /\ [][NextCatalog]_vars

\* ---------------------------------------------------------- retry merge

\* The most products the comprehensive file holds in this model.
MaxProducts == 4

\* retry_failed_pdfs.py line 37
FAILED_PDFS == <<"100369.pdf", "100370.pdf">>

\* The objects the model returns for a product sheet (json.loads of its
\* answer): a sheet whose description names beef, a sheet whose description
\* names nothing the script looks for, and a sheet from which no field could
\* be determined ("If a field cannot be determined from the PDF, use null").
SheetBeef ==
    JDict(<< <<"wbscm_id", JStr("100369")>>, <<"description", JStr("Beef Patties")>>,
             <<"category", JStr("other")>> >>)
SheetGrains ==
    JDict(<< <<"wbscm_id", JStr("100370")>>, <<"description", JStr("Product 100370")>>,
             <<"category", JStr("grains")>> >>)
SheetUndetermined ==
    JDict(<< <<"wbscm_id", JNull>>, <<"description", JNull>>, <<"category", JNull>> >>)
Sheets == {SheetBeef, SheetGrains, SheetUndetermined}

\* The words of categorize_product that occur in desc.lower(), for the
\* descriptions of this model.
WordsIn(desc) ==
    CASE desc = "Beef Patties" -> {"beef"}
      [] OTHER -> {}

\* The tests of categorize_product (retry_failed_pdfs.py lines 117-138), in
\* their order: the category and the words that select it.
CategoryWords ==
    << <<"beef", {"beef"}>>, <<"poultry", {"chicken", "turkey"}>>,
       <<"pork", {"pork", "ham"}>>, <<"fish", {"fish", "pollock", "salmon"}>>,
       <<"cheese", {"cheese"}>>, <<"beans", {"bean", "pinto", "kidney"}>>,
       <<"eggs", {"egg"}>>, <<"dairy", {"yogurt"}>>,
       <<"vegetables", {"broccoli", "carrot", "corn", "pea", "spinach", "potato", "tomato"}>>,
       <<"fruits", {"apple", "orange", "peach", "pear", "berry", "fruit"}>>,
       <<"grains", {"pasta", "rice", "oat", "flour", "tortilla"}>> >>

\* categorize_product(data) of retry_failed_pdfs.py (lines 113-140): the
\* first category one of whose words is in the description, else
\* data.get("category", "other"), which is None for "category": null.
categorize_product(data) ==
    LET description == DictGet(data, "description", JNull)
        desc == IF Truthy(description) THEN description.v ELSE ""
        hits == {i \in 1..Len(CategoryWords) : CategoryWords[i][2] \cap WordsIn(desc) # {}}
    IN  IF hits # {}
        THEN JStr(CategoryWords[CHOOSE i \in hits : \A j \in hits : i <= j][1])
        ELSE DictGet(data, "category", JStr("other"))

\* A dict key that is None while the dict is in memory.
NoneKey == "<None>"

\* The key a category value makes in products_by_category.
KeyOf(category) == IF category.t = "null" THEN NoneKey ELSE category.v

\* What extract_data_from_pdf gives for one PDF of FAILED_PDFS: the file is
\* not there (line 162), the extraction failed (line 110), or the object the
\* model returned.
PdfOutcomes ==
    {[kind |-> "missing"], [kind |-> "error"]} \cup {[kind |-> "data", data |-> s] : s \in Sheets}

\* Lines 176-180: the product as it goes into new_products.
Normalized(data) ==
    DictSet(DictSet(data, "category", categorize_product(data)), "source_url", JNull)

\* new_products and still_failed after the loop of lines 160-181.
RECURSIVE NewProducts(_, _)
NewProducts(outcomes, i) ==
    IF i > Len(outcomes) THEN <<>>
    ELSE (IF outcomes[i].kind = "data" THEN <<Normalized(outcomes[i].data)>> ELSE <<>>)
         \o NewProducts(outcomes, i + 1)

RECURSIVE StillFailed(_, _)
StillFailed(outcomes, i) ==
    IF i > Len(outcomes) THEN <<>>
    ELSE (IF outcomes[i].kind = "error"
          THEN <<JDict(<< <<"file", JStr(FAILED_PDFS[i])>>,
                          <<"error", JStr("extraction failed")>> >>)>>
          ELSE <<>>)
         \o StillFailed(outcomes, i + 1)

\* Lines 186-190: each product is appended to the list of its category, which
\* is made when the key is not in the dict.
RECURSIVE AddByCategory(_, _)
AddByCategory(cats, products) ==
    IF products = <<>> THEN cats
    ELSE LET cat == KeyOf(DictGet(Head(products), "category", JStr("other")))
             list == IF HasKey(cats, cat) THEN Lookup(cats, cat).v ELSE <<>>
         IN  AddByCategory(DictSet(cats, cat, JList(Append(list, Head(products)))),
                           Tail(products))

\* The integer a JSON number stands for.
IntOf(x) == CHOOSE n \in 0..(MaxProducts + Len(FAILED_PDFS)) : ToString(n) = x.v

\* json.dump writes the key None as "null"; json.load of the text keeps, of
\* two members with one name, the value of the last at the place of the first.
RECURSIVE LoadMembers(_, _)
LoadMembers(pairs, acc) ==
    IF pairs = <<>> THEN acc
    ELSE LoadMembers(Tail(pairs),
                     DictSet(acc, IF Head(pairs)[1] = NoneKey THEN "null" ELSE Head(pairs)[1],
                             Head(pairs)[2]))

\* The document a later json.load reads from the file json.dump wrote (lines
\* 201-202): the members of products_by_category go through the text.
Written(data) ==
    DictSet(data, "products_by_category",
            LoadMembers(Lookup(data, "products_by_category").v, JDict(<<>>)))

\* The merge of lines 184-202 on the loaded document.
Merged(existing_data, new_products, still_failed) ==
    LET metadata == Lookup(existing_data, "metadata")
        total == JNum(ToString(IntOf(Lookup(metadata, "total_products"))
                               + Len(new_products)))
        with_all == DictSet(existing_data, "all_products",
                        JList(Lookup(existing_data, "all_products").v \o new_products))
        with_cats == DictSet(with_all, "products_by_category",
                        AddByCategory(Lookup(existing_data, "products_by_category"),
                                      new_products))
        with_meta == DictSet(with_cats, "metadata",
                        DictSet(DictSet(metadata, "total_products", total),
                                "total_errors", JNum(ToString(Len(still_failed)))))
    IN  DictSet(with_meta, "extraction_errors", JList(still_failed))

\* extract_usda_pdf_data.py main (lines 261-285): the file the first
\* extraction writes for its results and errors.
RECURSIVE Organized(_, _)
Organized(organized, results) ==
    IF results = <<>> THEN organized
    ELSE LET category == DictGet(Head(results), "category", JStr("other")).v
             list == IF HasKey(organized, category) THEN Lookup(organized, category).v
                     ELSE <<>>
         IN  Organized(DictSet(organized, category, JList(Append(list, Head(results)))),
                       Tail(results))

ExtractionOutput(results) ==
    JDict(<< <<"metadata",
               JDict(<< <<"source", JStr("USDA FNS Product Information Sheets")>>,
                        <<"total_products", JNum(ToString(Len(results)))>>,
                        <<"total_errors", JNum("2")>> >>)>>,
             <<"products_by_category", Organized(JDict(<<>>), results)>>,
             <<"all_products", JList(results)>>,
             <<"extraction_errors",
               JList(<<JDict(<< <<"file", JStr("100369.pdf")>>,
                                <<"error", JStr("extraction failed")>> >>),
                       JDict(<< <<"file", JStr("100370.pdf")>>,
                                <<"error", JStr("extraction failed")>> >>)>>)>> >>)

\* The results of the first extraction, in which the two PDFs failed.
FirstResults == {<<>>, <<CompBeef>>, <<CompBeef, CompCheese>>}

InitRetry ==
    /\ OUTPUT_FILE \in {ExtractionOutput(results) : results \in FirstResults}
    /\ COMMODITIES_COMPREHENSIVE = EmptyDoc
    /\ COMMODITIES_LEGACY = EmptyDoc
    /\ MEAL_PATTERNS = EmptyDoc
    /\ DISTRICT_PROFILE = EmptyDoc
    /\ FBG_YIELDS = EmptyDoc
    /\ COST_LOOKUP = _build_cost_lookup(EmptyDoc)
    /\ loaded = <<EmptyDoc, EmptyDoc, EmptyDoc, EmptyDoc, EmptyDoc,
                  _build_cost_lookup(EmptyDoc)>>
    /\ Import({DeployedEnvironment})
    /\ last = NoCall
    /\ pc = [r \in Runs |-> "none"]
    /\ fn = [r \in Runs |-> "none"]
    /\ pos = [r \in Runs |-> NoPos]
    /\ result = [r \in Runs |-> EmptyAggregate]
    /\ out = [r \in Runs |-> <<>>]
    /\ pulled = [r \in Runs |-> <<>>]
    /\ calls = [r \in Runs |-> 0]

\* One run of retry_failed_pdfs.main (lines 143-207): the file is loaded, each
\* PDF is tried, and when a product was extracted the merged document is
\* written back.
RetryMain ==
    \E outcomes \in [1..Len(FAILED_PDFS) -> PdfOutcomes] :
        LET new_products == NewProducts(outcomes, 1)
            still_failed == StillFailed(outcomes, 1)
        IN  /\ Len(Lookup(OUTPUT_FILE, "all_products").v) + Len(new_products)
                  <= MaxProducts
            /\ OUTPUT_FILE' = IF new_products # <<>>
                              THEN Written(Merged(OUTPUT_FILE, new_products, still_failed))
                              ELSE OUTPUT_FILE
            /\ UNCHANGED <<store, loaded, environ, last, relay>>

NextRetry == RetryMain

\* Runs of the retry script, one after the other, on the file the first
\* extraction wrote.
SpecRetry == InitRetry /\ [][NextRetry]_vars

\* ------------------------------------------------- claims about the relay

\* Equality of two events whose data may be of different JSON types.
EvEq(a, b) == a.type = b.type /\ JEq(a.data, b.data)

IsPrefix(s, t) == Len(s) <= Len(t) /\ \A i \in 1..Len(s) : EvEq(s[i], t[i])
SameEvents(s, t) == Len(s) = Len(t) /\ IsPrefix(s, t)
Front(s) == SubSeq(s, 1, Len(s) - 1)

DataKinds == {"text", "code", "result"}
IsData(e) == e.type \in DataKinds
DataEvents(events) == SelectSeq(events, IsData)
CountOf(events, type) == Cardinality({i \in 1..Len(events) : events[i].type = type})

\* The events one part stands for: its text, then its code, then its result.
EventsOfPart(part) ==
    (IF part.text # None /\ part.text[1] # ""
     THEN <<Event("text", JStr(part.text[1]))>> ELSE <<>>)
    \o (IF part.executable_code # None
        THEN <<Event("code", JOpt(part.executable_code[1].code))>> ELSE <<>>)
    \o (IF part.code_execution_result # None
        THEN <<Event("result",
                     JDict(<< <<"output", JOpt(part.code_execution_result[1].output)>>,
                              <<"outcome",
                                JStr(StrOutcome(part.code_execution_result[1].outcome))>> >>))>>
        ELSE <<>>)

EventsOfChunk(chunk) ==
    IF Usable(chunk) THEN Flatten(MapSeq(EventsOfPart, PartsOf(chunk))) ELSE <<>>

\* The data events a chunk sequence stands for, chunk by chunk, part by part.
ExpectedEvents(chunks) == Flatten(MapSeq(EventsOfChunk, chunks))

RECURSIVE ConcatText(_)
ConcatText(events) ==
    IF events = <<>> THEN ""
    ELSE (IF Head(events).type = "text" THEN Head(events).data.v ELSE "")
         \o ConcatText(Tail(events))

IsCode(e) == e.type = "code"
IsResult(e) == e.type = "result"
DataOf(e) == e.data

\* The aggregate a sequence of events folds to.
FoldEvents(events) ==
    [text |-> ConcatText(events),
     code_blocks |-> MapSeq(DataOf, SelectSeq(events, IsCode)),
     code_results |-> MapSeq(DataOf, SelectSeq(events, IsResult))]

FailureReasons == {"upstream call failed", "upstream stream failed", "part failed"}
Streaming == {"call", "pull", "part"}
LastOf(s) == s[Len(s)]

\* C1: a run whose upstream failed (at the call, between chunks or inside a
\* part) has emitted exactly one `error` event carrying the failure's
\* description, that event is its last, it holds no `done`, and the events
\* before the error are the events of the chunks received before the failure;
\* a run still streaming holds neither `error` nor `done`.
C1_FailureEndsWithOneError ==
    \A r \in Runs :
        /\ pc[r] = "failed" =>
              /\ out[r] # <<>>
              /\ LastOf(out[r]).type = "error"
              /\ LastOf(out[r]).data.t = "str"
              /\ LastOf(out[r]).data.v \in FailureReasons
              /\ CountOf(out[r], "error") = 1
              /\ CountOf(out[r], "done") = 0
              /\ IsPrefix(Front(out[r]), ExpectedEvents(pulled[r]))
        /\ pc[r] \in Streaming =>
              CountOf(out[r], "error") = 0 /\ CountOf(out[r], "done") = 0

\* A part fails after a text event has gone out: text, then error.
C1_Witness ==
    \E r \in Runs :
        /\ pc[r] = "failed"
        /\ Len(out[r]) = 2
        /\ out[r][1].type = "text"
        /\ LastOf(out[r]).data.v = "part failed"

\* C2: a run whose upstream ended without failure has emitted exactly one
\* `done` event, as its last event, and no `error` event; and a `done` event
\* is only ever found in such a run.
C2_ExhaustionEndsWithOneDone ==
    \A r \in Runs :
        /\ pc[r] = "done" =>
              /\ out[r] # <<>>
              /\ LastOf(out[r]).type = "done"
              /\ CountOf(out[r], "done") = 1
              /\ CountOf(out[r], "error") = 0
        /\ CountOf(out[r], "done") > 0 => pc[r] = "done"

\* Two chunks were relayed and the run closed with `done`.
C2_Witness ==
    \E r \in Runs :
        /\ pc[r] = "done"
        /\ Len(pulled[r]) >= 2
        /\ Len(out[r]) >= 3
        /\ LastOf(out[r]).type = "done"

\* C3: at every point the aggregate of a run is the fold of the data events
\* it has emitted so far (texts concatenated, code and result data listed in
\* order), and the payload of a `done` event is the fold of all the events
\* before it.
C3_AggregateIsFoldOfEvents ==
    \A r \in Runs :
        /\ LET agg == result[AggregateOf(r)]
               fold == FoldEvents(DataEvents(out[r]))
           IN  /\ agg.text = fold.text
               /\ JEq(JList(agg.code_blocks), JList(fold.code_blocks))
               /\ JEq(JList(agg.code_results), JList(fold.code_results))
        /\ \A i \in 1..Len(out[r]) :
              out[r][i].type = "done" =>
                  JEq(out[r][i].data,
                      AggregateJson(FoldEvents(SubSeq(out[r], 1, i - 1))))

\* A finished run with two texts, a code block and a result in its payload.
C3_Witness ==
    \E r \in Runs :
        /\ pc[r] = "done"
        /\ CountOf(out[r], "text") >= 2
        /\ CountOf(out[r], "code") >= 1
        /\ CountOf(out[r], "result") >= 1
        /\ result[AggregateOf(r)].text \in {"AB", "BA"}

\* C4: the data events of a run follow the order of the chunks received and
\* of the parts in each chunk, and within one part the order text, code,
\* result: they are a prefix of the events the received chunks stand for, and
\* all of them once the relay stands between chunks or has finished.
C4_EventsFollowUpstreamOrder ==
    \A r \in Runs :
        /\ IsPrefix(DataEvents(out[r]), ExpectedEvents(pulled[r]))
        /\ pc[r] \in {"pull", "done"} =>
              Len(DataEvents(out[r])) = Len(ExpectedEvents(pulled[r]))

\* A part with all three kinds went out as text, code, result after an
\* earlier chunk's event.
C4_Witness ==
    \E r \in Runs :
        /\ pc[r] = "done"
        /\ Len(pulled[r]) >= 2
        /\ \E i \in 2..Len(out[r]) - 2 :
              /\ out[r][i].type = "text"
              /\ out[r][i + 1].type = "code"
              /\ out[r][i + 2].type = "result"

\* The chunks of a run whose events have all gone out.
Delivered(r) ==
    LET n == Len(DataEvents(out[r]))
        done == {k \in 0..Len(pulled[r]) :
                    Len(ExpectedEvents(SubSeq(pulled[r], 1, k))) <= n}
    IN  CHOOSE k \in done : \A j \in done : j <= k

\* C5: a run holds back at most the chunk in hand: all chunks received but
\* the last have been relayed in full, and the next chunk is asked for only
\* when none is held back.
C5_AtMostCurrentChunkBuffered ==
    \A r \in Runs :
        /\ Len(pulled[r]) - Delivered(r) <= 1
        /\ Len(pulled[r]) > 0 =>
              IsPrefix(ExpectedEvents(Front(pulled[r])), DataEvents(out[r]))
        /\ CanPull(r) => Delivered(r) = Len(pulled[r])

\* The second chunk is in hand, the first is delivered, the second is not.
C5_Witness ==
    \E r \in Runs :
        /\ pc[r] = "part"
        /\ Len(pulled[r]) = 2
        /\ Delivered(r) = 1
        /\ Len(out[r]) >= 1

\* C6: a request makes at most one upstream call: a run has called at most
\* once, a failed run exactly once and never again, only the generator of
\* stream_gemini calls, and a request that is not a POST to one of the five
\* stream routes leaves no generator behind.
C6_AtMostOneUpstreamCall ==
    /\ \A r \in Runs :
          /\ calls[r] <= 1
          /\ pc[r] = "failed" => calls[r] = 1
          /\ calls[r] > 0 => fn[r] = "stream_gemini"
    /\ (last.called /\ ~(last.method = "POST" /\ last.path \in StreamRoutes)) =>
          last.run = None

\* The upstream failed after a chunk, and the run made its one call.
C6_Witness ==
    \E r \in Runs :
        /\ pc[r] = "failed"
        /\ calls[r] = 1
        /\ Len(pulled[r]) >= 1
        /\ LastOf(out[r]).data.v = "upstream stream failed"

\* C7: under every interleaving of two relay runs, the data events of each
\* run are events of its own upstream chunks, in full once it has finished,
\* and the payload of its `done` event is the fold of its own upstream chunks:
\* nothing of the other run's upstream reaches it.
C7_RunsShareNoState ==
    \A r \in Runs :
        /\ IsPrefix(DataEvents(out[r]), ExpectedEvents(pulled[r]))
        /\ pc[r] = "done" =>
              /\ SameEvents(Front(out[r]), ExpectedEvents(pulled[r]))
              /\ JEq(LastOf(out[r]).data,
                     AggregateJson(FoldEvents(ExpectedEvents(pulled[r]))))

\* Both runs have finished on different upstream sequences, each with text.
C7_Witness ==
    /\ \A r \in Runs : pc[r] = "done" /\ CountOf(out[r], "text") >= 1
    /\ pulled["r1"] # pulled["r2"]
    /\ result[AggregateOf("r1")].text # result[AggregateOf("r2")].text

\* ---------------------------------------------- claims about the dispatcher

\* C8: the five reference documents and the cost lookup have their load-time
\* value in every state, whatever requests were served.
C8_ReferenceDataUnchanged ==
    /\ JEq(COMMODITIES_COMPREHENSIVE, loaded[1])
    /\ JEq(COMMODITIES_LEGACY, loaded[2])
    /\ JEq(MEAL_PATTERNS, loaded[3])
    /\ JEq(DISTRICT_PROFILE, loaded[4])
    /\ JEq(FBG_YIELDS, loaded[5])
    /\ JEq(COST_LOOKUP, loaded[6])

\* A category listing has just enriched the products of the loaded store.
C8_Witness ==
    /\ last.called
    /\ last.method = "GET"
    /\ last.path = <<"api", "commodities", "dairy">>
    /\ last.resp.status = 200
    /\ last.resp.body.t = "list"
    /\ Len(last.resp.body.v) >= 2
    /\ \A i \in 1..Len(last.resp.body.v) : HasKey(last.resp.body.v[i], "est_cost_per_lb")

\* The routes the service lists.
Listed(method, path) ==
    \/ method = "OPTIONS"
    \/ /\ method = "GET"
       /\ \/ path \in {<<>>, <<"">>, <<"api", "commodities">>,
                       <<"api", "district-profile">>, <<"api", "meal-patterns">>}
          \/ IsCommoditiesPrefix(path)
    \/ method = "POST" /\ path \in StreamRoutes

\* C9: every request whose (method, path) is not a listed route is answered
\* with 404.
C9_UnlistedGets404 ==
    (last.called /\ ~Listed(last.method, last.path)) => last.resp.status = 404

\* C10: a failure raised while a request is handled ends in a 500 response
\* whose body holds the reason, and no failure leaves the generator of a
\* response unhandled.
C10_FailuresEndIn500 ==
    /\ (last.called /\ last.raised) =>
          /\ last.resp.status = 500
          /\ JEq(last.resp.body, JDict(<< <<"error", JStr(last.reason)>> >>))
    /\ \A r \in Runs : pc[r] # "escaped"

\* Whether a header dict holds the header with this value.
HasHeader(headers, name, value) ==
    \E i \in 1..Len(headers) : headers[i][1] = name /\ headers[i][2] = value

\* C11: every response main returns, whatever its status and whether it
\* streams or not, carries the four CORS headers with their values.
C11_EveryResponseHasCors ==
    last.called =>
        /\ HasHeader(last.resp.headers, "Access-Control-Allow-Origin", "*")
        /\ HasHeader(last.resp.headers, "Access-Control-Allow-Methods", "GET, POST, OPTIONS")
        /\ HasHeader(last.resp.headers, "Access-Control-Allow-Headers", "Content-Type, Accept")
        /\ HasHeader(last.resp.headers, "Access-Control-Max-Age", "3600")

\* The allocation error stream has been returned with the CORS headers.
C11_Witness ==
    /\ last.called
    /\ last.resp.gen.fn = "error_gen"
    /\ last.resp.status = 200
    /\ HasHeader(last.resp.headers, "Access-Control-Max-Age", "3600")

\* C12: a request with method OPTIONS, to any path and with any body, is
\* answered 204 with an empty body; no route is looked at, the body is not
\* parsed and no generator (hence no upstream call) is left behind.
C12_PreflightBeforeRouting ==
    (last.called /\ last.method = "OPTIONS") =>
        /\ last.resp.status = 204
        /\ JEq(last.resp.body, JStr(""))
        /\ ~last.routed
        /\ ~last.parsed
        /\ ~last.raised
        /\ last.run = None
        /\ \A r \in Runs : pc[r] = "none" /\ calls[r] = 0

\* A preflight to a stream route with a body that does not parse.
C12_Witness ==
    /\ last.called
    /\ last.method = "OPTIONS"
    /\ last.path = <<"api", "stream", "allocate">>
    /\ ~last.body.ok
    /\ last.resp.status = 204

\* Whether a slug is a key of the slug mapping.
IsSlug(slug) == \E i \in 1..Len(CATEGORY_MAP) : CATEGORY_MAP[i][1] = slug

\* C13: GET /api/commodities/{slug} answers 200 when the slug is a key of the
\* slug mapping, and otherwise (the empty slug included) 404 with an error
\* that lists the valid slugs.
C13_SlugDecidesStatus ==
    (last.called /\ last.method = "GET" /\ IsCommoditiesPrefix(last.path)) =>
        IF IsSlug(CategoryOfPath(last.path))
        THEN last.resp.status = 200
        ELSE /\ last.resp.status = 404
             /\ JEq(last.resp.body,
                    JDict(<< <<"error",
                               JStr("Category '" \o CategoryOfPath(last.path)
                                    \o "' not found. Valid: "
                                    \o ReprList(CategorySlugs))>> >>))

\* The records of the loaded comprehensive document a slug stands for: the
\* lists of its mapped categories, one after the other.
SourceRecords(slug) ==
    LET cats == DictGet(loaded[1], "products_by_category", JDict(<<>>))
        mapped == MappedCategories(slug)
    IN  Flatten([i \in 1..Len(mapped) |-> DictGet(cats, mapped[i], JList(<<>>)).v])

\* Whether record `got` holds every field of record `src` with its value.
KeepsFields(got, src) ==
    \A i \in 1..Len(src.v) :
        /\ HasKey(got, src.v[i][1])
        /\ JEq(Lookup(got, src.v[i][1]), src.v[i][2])

\* C14: the list served for a known slug has one record per record of its
\* mapped source categories, in mapping order, and each served record holds
\* every field of its own source record.
C14_MergedCategoryKeepsRecords ==
    (last.called /\ last.method = "GET" /\ IsCommoditiesPrefix(last.path)
       /\ IsSlug(CategoryOfPath(last.path))) =>
        /\ last.resp.status = 200
        /\ last.resp.body.t = "list"
        /\ Len(last.resp.body.v) = Len(SourceRecords(CategoryOfPath(last.path)))
        /\ \A i \in 1..Len(last.resp.body.v) :
              KeepsFields(last.resp.body.v[i],
                          SourceRecords(CategoryOfPath(last.path))[i])

\* ------------------------------------------- claims about commodity lookup

\* A record: a mapping that has the identifier field.
IsRecord(x) == IsDict(x) /\ HasKey(x, "wbscm_id")

\* The records of a document, depth first: a sequence gives the records of
\* its elements in order, a record gives itself, any other mapping the
\* records of its values in order, a scalar nothing.
RECURSIVE Records(_)
Records(doc) ==
    IF IsList(doc) THEN Flatten([i \in 1..Len(doc.v) |-> Records(doc.v[i])])
    ELSE IF IsDict(doc) THEN
        IF HasKey(doc, "wbscm_id") THEN <<doc>>
        ELSE Flatten([i \in 1..Len(doc.v) |-> Records(doc.v[i][2])])
    ELSE <<>>

\* C15: extract_all_commodities of a document is the sequence of the records
\* of the document, depth first, once per occurrence, and holds nothing that
\* is not a record.
C15_FlattenGivesExactlyTheRecords ==
    (last.called /\ last.fn = "extract_all_commodities") =>
        /\ \A i \in 1..Len(last.ret) : IsRecord(last.ret[i])
        /\ Len(last.ret) = Len(Records(COMMODITIES_LEGACY))
        /\ \A i \in 1..Len(last.ret) :
              JEq(last.ret[i], Records(COMMODITIES_LEGACY)[i])

\* The first record of a sequence of records that has this identifier (by
\* its text) and a cost, as an option.
FirstWithCost(records, id) ==
    LET hits == {j \in 1..Len(records) :
                    /\ PyStr(Lookup(records[j], "wbscm_id")) = id
                    /\ HasKey(records[j], "est_cost_per_lb")}
    IN  IF hits = {} THEN None
        ELSE Some(records[CHOOSE j \in hits : \A k \in hits : j <= k])

\* C16: an identifier that occurs in several records resolves to its first
\* occurrence in flattening order: every entry of the legacy cost lookup is
\* the cost of the first legacy record with that identifier.
C16_LookupTakesFirstOccurrence ==
    \A i \in 1..Len(COST_LOOKUP.v) :
        LET first == FirstWithCost(Records(COMMODITIES_LEGACY), COST_LOOKUP.v[i][1])
        IN  /\ first # None
            /\ JEq(COST_LOOKUP.v[i][2], Lookup(first[1], "est_cost_per_lb"))

\* The text of a record's identifier ('' when it has none).
IdOf(record) == PyStr(DictGet(record, "wbscm_id", JStr("")))

\* Whether a record supplies a field with a value that is not null.
Supplies(record, field) == HasKey(record, field) /\ Lookup(record, field).t # "null"

\* The values the legacy records of an identifier supply for a field.
LegacyValues(id, field) ==
    LET recs == Records(loaded[2])
    IN  {Lookup(recs[j], field) :
            j \in {k \in 1..Len(recs) : IdOf(recs[k]) = id /\ Supplies(recs[k], field)}}

InLegacy(id) ==
    \E j \in 1..Len(Records(loaded[2])) : IdOf(Records(loaded[2])[j]) = id

\* The comprehensive record of an identifier: the first of all_products.
ComprehensiveOf(id) ==
    LET products == DictGet(loaded[1], "all_products", JList(<<>>)).v
        hits == {j \in 1..Len(products) : IdOf(products[j]) = id}
    IN  IF hits = {} THEN None
        ELSE Some(products[CHOOSE j \in hits : \A k \in hits : j <= k])

\* The merge rule for one field: the comprehensive value when it is not null,
\* else a legacy value when the legacy source supplies one.
MergedAsSpecified(got, comp, field) ==
    IF Supplies(comp, field)
    THEN HasKey(got, field) /\ JEq(Lookup(got, field), Lookup(comp, field))
    ELSE LegacyValues(IdOf(comp), field) # {} =>
            /\ HasKey(got, field)
            /\ \E v \in LegacyValues(IdOf(comp), field) : JEq(Lookup(got, field), v)

IsAllocation(resp) ==
    /\ resp.gen.fn = "stream_gemini"
    /\ resp.gen.prompt.kind = "allocate"

MergedFields == {"description", "est_cost_per_lb", "yield_factor"}

\* C17: for an identifier in both sources the merged record carries the
\* comprehensive value of a field when that value is not null and the legacy
\* value otherwise: for the cost of the records served by the category
\* endpoint, and for the fields of the item data the allocation handler
\* builds.
C17_ComprehensiveThenLegacy ==
    /\ (last.called /\ last.method = "GET" /\ IsCommoditiesPrefix(last.path)
          /\ IsSlug(CategoryOfPath(last.path)) /\ last.resp.status = 200) =>
          \A i \in 1..Len(last.resp.body.v) :
              LET src == SourceRecords(CategoryOfPath(last.path))[i]
              IN  InLegacy(IdOf(src)) =>
                      MergedAsSpecified(last.resp.body.v[i], src, "est_cost_per_lb")
    /\ (last.called /\ IsAllocation(last.resp)) =>
          \A i \in 1..Len(last.resp.gen.prompt.items_data.v) :
              LET entry == last.resp.gen.prompt.items_data.v[i]
                  comp == ComprehensiveOf(IdOf(entry))
              IN  (comp # None /\ InLegacy(IdOf(entry))) =>
                      \A field \in MergedFields :
                          MergedAsSpecified(entry, comp[1], field)

\* The default cost of a record: that of its category in the static table,
\* 2.00 when the category is missing or not in the table.
DefaultCostOf(record) ==
    LET cat == DictGet(record, "category", JNull)
    IN  IF cat.t = "str" /\ HasKey(DEFAULT_COST_PER_LB, cat.v)
        THEN Lookup(DEFAULT_COST_PER_LB, cat.v)
        ELSE JNum("2.00")

\* The cost the rule gives a served record of source record src.
CostAsSpecified(got, src) ==
    /\ HasKey(got, "est_cost_per_lb")
    /\ Lookup(got, "est_cost_per_lb").t # "null"
    /\ IF Supplies(src, "est_cost_per_lb")
       THEN JEq(Lookup(got, "est_cost_per_lb"), Lookup(src, "est_cost_per_lb"))
       ELSE IF LegacyValues(IdOf(src), "est_cost_per_lb") # {}
       THEN \E v \in LegacyValues(IdOf(src), "est_cost_per_lb") :
               JEq(Lookup(got, "est_cost_per_lb"), v)
       ELSE JEq(Lookup(got, "est_cost_per_lb"), DefaultCostOf(src))

\* C18: every record served by GET /api/commodities/{slug} carries a cost
\* that is not null: the value a source supplies when one does, else the
\* default of the record's category, else 2.00.
C18_CostFromSourceThenDefault ==
    (last.called /\ last.method = "GET" /\ IsCommoditiesPrefix(last.path)
       /\ IsSlug(CategoryOfPath(last.path)) /\ last.resp.status = 200) =>
        \A i \in 1..Len(last.resp.body.v) :
            CostAsSpecified(last.resp.body.v[i],
                            SourceRecords(CategoryOfPath(last.path))[i])

\* A line item: a mapping with a numeric count of cases.
IsLineItem(item) ==
    /\ IsDict(item)
    /\ DictGet(item, "wbscm_id", JStr("")).t \in {"str", "num"}
    /\ DictGet(item, "quantity_cases", JNull).t = "num"

\* Whether the identifier of a line item is in one of the two sources.
Resolvable(item) ==
    ComprehensiveOf(IdOf(item)) # None \/ InLegacy(IdOf(item))

\* An allocation request whose body is a mapping with a list of line items
\* and a numeric annual_meals.
IsAllocationRequest ==
    /\ last.called
    /\ last.method = "POST"
    /\ last.path = <<"api", "stream", "allocate">>
    /\ last.body.ok
    /\ IsDict(last.body.json)
    /\ IsList(DictGet(last.body.json, "items", JList(<<>>)))
    /\ \A i \in 1..Len(DictGet(last.body.json, "items", JList(<<>>)).v) :
          IsLineItem(DictGet(last.body.json, "items", JList(<<>>)).v[i])
    /\ DictGet(last.body.json, "annual_meals", JNum("3397500")).t = "num"

\* C19: of the N line items of an allocation request the k whose identifier
\* is in neither source are left out: the item list of the prompt has one
\* entry per resolvable item, in request order, repeated items repeated, and
\* the request is answered with the stream (not failed) when N - k >= 1.
C19_UnresolvedItemsAreSkipped ==
    IsAllocationRequest =>
        LET items == DictGet(last.body.json, "items", JList(<<>>)).v
            kept == SelectSeq(items, Resolvable)
        IN  Len(kept) >= 1 =>
              /\ ~last.raised
              /\ last.resp.status = 200
              /\ IsAllocation(last.resp)
              /\ Len(last.resp.gen.prompt.items_data.v) = Len(kept)
              /\ \A i \in 1..Len(kept) :
                    LET entry == last.resp.gen.prompt.items_data.v[i]
                    IN  /\ JEq(Lookup(entry, "wbscm_id"), JStr(IdOf(kept[i])))
                        /\ JEq(Lookup(entry, "quantity_cases"),
                               Lookup(kept[i], "quantity_cases"))

\* Four items, one unresolvable and one repeated: three entries.
C19_Witness ==
    /\ IsAllocationRequest
    /\ Len(DictGet(last.body.json, "items", JList(<<>>)).v) = 4
    /\ IsAllocation(last.resp)
    /\ Len(last.resp.gen.prompt.items_data.v) = 3
    /\ JEq(Lookup(last.resp.gen.prompt.items_data.v[3], "wbscm_id"), JStr("100"))

\* C20: every streaming response a stream handler returns is sent as
\* text/event-stream with Cache-Control: no-cache, the allocation handler's
\* no-valid-commodity stream included.
C20_StreamsAreUncachedEventStreams ==
    (last.called /\ last.resp.gen.fn # "none") =>
        /\ last.resp.mimetype = "text/event-stream"
        /\ HasHeader(last.resp.headers, "Cache-Control", "no-cache")

\* ------------------------------------------------------------ SSE frames

\* The keys of a JSON dict, in order.
KeysOf(d) == [i \in 1..Len(d.v) |-> d.v[i][1]]

\* What one yield of lines 148-165 and 328 hands to the server: the string
\* f'data: {json.dumps({"type": ..., "data": ...})}\n\n', as its three pieces:
\* the field name, the documents json.dumps wrote, and the blank line.
SseFrame(event) ==
    [field |-> "data: ",
     docs |-> << JDict(<< <<"type", JStr(event.type)>>, <<"data", event.data>> >>) >>,
     end |-> "\n\n"]

\* The frames run r has sent, one per yield.
Frames(r) == [i \in 1..Len(out[r]) |-> SseFrame(out[r][i])]

EventTypes == {"text", "code", "result", "done", "error"}

\* The data of a document matches its type.
DataMatches(type, data) ==
    CASE type \in {"text", "code", "error"} -> data.t = "str"
      [] type = "result" ->
            data.t = "dict" /\ KeysOf(data) = <<"output", "outcome">>
      [] type = "done" ->
            /\ data.t = "dict"
            /\ KeysOf(data) = <<"text", "code_blocks", "code_results">>
            /\ Lookup(data, "text").t = "str"
            /\ Lookup(data, "code_blocks").t = "list"
            /\ Lookup(data, "code_results").t = "list"
      [] OTHER -> FALSE

\* C21: every frame a streaming response sends is one complete frame with
\* exactly one JSON document {type, data}, whose type is one of text, code,
\* result, done, error and whose data matches the type: a string for text,
\* code and error, {output, outcome} for result, and {text, code_blocks,
\* code_results} for done.
C21_EveryFrameIsOneTypedDocument ==
    \A r \in Runs :
        \A i \in 1..Len(Frames(r)) :
            LET frame == Frames(r)[i]
            IN  /\ frame.field = "data: "
                /\ frame.end = "\n\n"
                /\ Len(frame.docs) = 1
                /\ frame.docs[1].t = "dict"
                /\ KeysOf(frame.docs[1]) = <<"type", "data">>
                /\ Lookup(frame.docs[1], "type").t = "str"
                /\ Lookup(frame.docs[1], "type").v \in EventTypes
                /\ DataMatches(Lookup(frame.docs[1], "type").v,
                               Lookup(frame.docs[1], "data"))

\* A run that sent a text, a code, a result and a done frame.
C21_Witness ==
    /\ pc["r1"] = "done"
    /\ \A type \in {"text", "code", "result", "done"} : CountOf(out["r1"], type) >= 1

\* C22: a relay run ends exactly when its upstream does. Against an upstream
\* that ends or fails after finitely many chunks, a run that is streaming
\* eventually is DONE or FAILED, and then it stays so and sends nothing more;
\* and a run leaves STREAMING in no other way than by the end of the upstream
\* (to DONE, from the wait for the next chunk) or by a failure (to FAILED):
\* no step of the relay times out or cancels the wait.
C22_RelayEndsWithItsUpstream ==
    /\ \A r \in Runs : (pc[r] \in Streaming) ~> (pc[r] \in {"done", "failed"})
    /\ [][\A r \in Runs :
            /\ (pc[r] \in Streaming /\ pc'[r] \notin Streaming) =>
                  \/ pc[r] = "pull" /\ pc'[r] = "done"
                  \/ pc'[r] = "failed"
            /\ pc[r] \in {"done", "failed"} =>
                  pc'[r] = pc[r] /\ out'[r] = out[r]]_vars

\* A run ended by the end of its upstream after two chunks.
C22_Witness ==
    /\ pc["r1"] = "done" /\ Len(pulled["r1"]) = 2
    /\ CountOf(out["r1"], "done") = 1

\* ------------------------------------------------------- prompt assembly

SamePrompt(a, b) ==
    /\ a.raised = b.raised
    /\ a.gen.fn = b.gen.fn
    /\ a.gen.fn = "stream_gemini" =>
          /\ a.gen.prompt.kind = b.gen.prompt.kind
          /\ a.gen.prompt = b.gen.prompt

CredentialsAbsent ==
    /\ environ.GCP_PROJECT = None
    /\ environ.GOOGLE_CLOUD_PROJECT = None
    /\ ~environ.credentials

\* C24: a process started without the project identifiers and credentials of
\* the upstream service fails at startup and serves no request: in such an
\* environment no GET request is ever answered with 200.
C24_NoCredentialsNoService ==
    CredentialsAbsent =>
        ~(last.called /\ last.method = "GET" /\ last.resp.status = 200)

\* ------------------------------------------------------- skipped chunks

\* A chunk with no usable content: no candidates, a first candidate with no
\* content, or content with no parts.
NoUsableContent(chunk) ==
    \/ chunk.candidates = None
    \/ chunk.candidates[1] = <<>>
    \/ chunk.candidates[1][1].content = None
    \/ chunk.candidates[1][1].content[1].parts = None
    \/ chunk.candidates[1][1].content[1].parts[1] = <<>>
HasContent(chunk) == ~NoUsableContent(chunk)

\* C25: a chunk with no usable content is skipped: the step that receives it
\* sends no event, leaves the aggregate as it is and leaves the run waiting
\* for the next chunk; and the chunks around it are relayed as if it had not
\* been there: between chunks and at the end the data events of a run are
\* the events of its chunks with content.
C25_EmptyChunkIsSkipped ==
    /\ [][\A r \in Runs :
            (/\ Len(pulled'[r]) = Len(pulled[r]) + 1
             /\ NoUsableContent(LastOf(pulled'[r]))) =>
                /\ out'[r] = out[r]
                /\ result'[r] = result[r]
                /\ pc[r] = "pull" /\ pc'[r] = "pull"]_vars
    /\ [](\A r \in Runs :
            pc[r] \in {"pull", "done"} =>
                SameEvents(DataEvents(out[r]),
                           ExpectedEvents(SelectSeq(pulled[r], HasContent))))

\* A run that received a chunk without content, then a chunk with parts, and
\* ended with the events of the second.
C25_Witness ==
    /\ pc["r1"] = "done"
    /\ Len(pulled["r1"]) = 2
    /\ NoUsableContent(pulled["r1"][1])
    /\ HasContent(pulled["r1"][2])
    /\ Len(out["r1"]) >= 2
    /\ CountOf(out["r1"], "done") = 1

\* ------------------------------------------------- no valid commodities

\* The payload main hands to a stream handler (line 550).
PayloadOf(body) == IF Truthy(body.json) THEN body.json ELSE JDict(<<>>)

\* An allocation request whose item list is a list of mappings none of which
\* has its identifier in a source; the list may be empty or missing.
NoItemResolves ==
    /\ last.called
    /\ last.method = "POST"
    /\ last.path = <<"api", "stream", "allocate">>
    /\ last.body.ok
    /\ IsDict(PayloadOf(last.body))
    /\ LET items == DictGet(PayloadOf(last.body), "items", JList(<<>>))
       IN  /\ IsList(items)
           /\ \A i \in 1..Len(items.v) :
                 /\ IsDict(items.v[i])
                 /\ DictGet(items.v[i], "wbscm_id", JStr("")).t
                        \in {"str", "num", "null", "bool"}
                 /\ ~Resolvable(items.v[i])

\* C26: an allocation request none of whose line items resolves (an empty
\* list included) is answered with the stream of error_gen and no prompt;
\* that stream is the one `error` event "No valid commodities found" and
\* nothing else: its run never calls the upstream, receives no chunk and sends
\* no `done`.
C26_NothingResolvedGivesOneError ==
    /\ NoItemResolves =>
          /\ ~last.raised
          /\ last.resp.status = 200
          /\ last.resp.gen = [fn |-> "error_gen"]
    /\ \A r \in Runs :
          fn[r] = "error_gen" =>
              /\ calls[r] = 0
              /\ pulled[r] = <<>>
              /\ pc[r] \in {"created", "finished"}
              /\ pc[r] = "created" => out[r] = <<>>
              /\ pc[r] = "finished" =>
                    /\ Len(out[r]) = 1
                    /\ EvEq(out[r][1], Event("error", JStr("No valid commodities found")))

\* The stream of such a request has run to its end.
C26_Witness ==
    /\ fn["r1"] = "error_gen"
    /\ pc["r1"] = "finished"
    /\ Len(out["r1"]) = 1 /\ out["r1"][1].type = "error"

\* ------------------------------------------------- items without identifier

\* An allocation request whose items are mappings with a numeric count of
\* cases, none of which carries an identifier (the field is missing or null).
OnlyItemsWithoutIdentifier ==
    /\ last.called
    /\ last.method = "POST"
    /\ last.path = <<"api", "stream", "allocate">>
    /\ last.body.ok
    /\ IsDict(PayloadOf(last.body))
    /\ LET items == DictGet(PayloadOf(last.body), "items", JList(<<>>))
       IN  /\ IsList(items)
           /\ Len(items.v) >= 1
           /\ \A i \in 1..Len(items.v) :
                 /\ IsDict(items.v[i])
                 /\ DictGet(items.v[i], "wbscm_id", JNull).t = "null"
                 /\ DictGet(items.v[i], "quantity_cases", JNull).t = "num"

\* C27: a line item whose identifier is missing or null is never resolved to
\* a record and is skipped: a request with such items only resolves nothing
\* and is answered with the no-valid-commodity stream, never with a prompt.
C27_ItemWithoutIdentifierIsSkipped ==
    OnlyItemsWithoutIdentifier =>
        /\ ~last.raised
        /\ last.resp.gen.fn = "error_gen"

\* ------------------------------------------------------- summary counts

\* The records GET /api/commodities/{slug} returns in the current state.
ListingOf(slug) == handle_commodities(Some(slug)).resp

\* The summary GET /api/commodities returns in the current state.
SummaryNow == handle_commodities(None).resp

\* C28: for every slug of the slug mapping the count the summary reports is
\* the number of records the listing of that slug returns, whatever the
\* comprehensive document holds (the empty document included): a summary
\* just served agrees with every listing, and a listing just served agrees
\* with the summary.
C28_SummaryCountsTheListings ==
    /\ (last.called /\ last.method = "GET" /\ last.path = <<"api", "commodities">>) =>
          /\ last.resp.status = 200
          /\ KeysOf(last.resp.body) = CategorySlugs
          /\ \A i \in 1..Len(CategorySlugs) :
                /\ ListingOf(CategorySlugs[i]).status = 200
                /\ JEq(Lookup(last.resp.body, CategorySlugs[i]),
                       JNum(ToString(Len(ListingOf(CategorySlugs[i]).body.v))))
    /\ (/\ last.called /\ last.method = "GET"
        /\ Len(last.path) = 3 /\ SubSeq(last.path, 1, 2) = <<"api", "commodities">>
        /\ IsSlug(last.path[3])) =>
          /\ last.resp.status = 200
          /\ SummaryNow.status = 200
          /\ JEq(Lookup(SummaryNow.body, last.path[3]),
                 JNum(ToString(Len(last.resp.body.v))))

\* A summary over a document with all four categories: the dairy slug counts
\* the three records of its categories.
C28_Witness ==
    /\ last.called /\ last.method = "GET" /\ last.path = <<"api", "commodities">>
    /\ JEq(Lookup(last.resp.body, "dairy"), JNum("3"))
    /\ Len(ListingOf("dairy").body.v) = 3
    /\ JEq(Lookup(last.resp.body, "beef"), JNum("1"))

\* ------------------------------------------------- run_commodity_query

\* gemini_client.py lines 185-218: what one part adds to text, code_blocks and
\* code_results of the result (the parts of this model carry no thought).
QueryPart(res, part) ==
    LET with_text ==
            IF part.text # None /\ part.text[1] # ""
            THEN [res EXCEPT !.text = @ \o part.text[1]] ELSE res
        with_code ==
            IF part.executable_code # None
            THEN [with_text EXCEPT
                    !.code_blocks = Append(@, JOpt(part.executable_code[1].code))]
            ELSE with_text
    IN  IF part.code_execution_result # None
        THEN [with_code EXCEPT
                !.code_results = Append(@, JDict(<<
                    <<"output", JOpt(part.code_execution_result[1].output)>>,
                    <<"outcome",
                      JStr(StrOutcome(part.code_execution_result[1].outcome))>> >>))]
        ELSE with_code

RECURSIVE QueryParts(_, _)
QueryParts(res, parts) ==
    IF parts = <<>> THEN res ELSE QueryParts(QueryPart(res, Head(parts)), Tail(parts))

\* run_commodity_query over the chunks its upstream sends (gemini_client.py
\* lines 173-231): the returned result, or the exception that leaves it.
\* Lines 178-182 test `is None` only, so chunk.candidates[0] of an empty
\* candidate list raises IndexError, and nothing catches it.
RECURSIVE run_commodity_query(_, _)
run_commodity_query(chunks, res) ==
    IF chunks = <<>> THEN Return(res)
    ELSE LET chunk == Head(chunks)
         IN  IF chunk.candidates = None
             THEN run_commodity_query(Tail(chunks), res)
             ELSE IF chunk.candidates[1] = <<>>
             THEN Raise("list index out of range")
             ELSE IF \/ chunk.candidates[1][1].content = None
                     \/ chunk.candidates[1][1].content[1].parts = None
             THEN run_commodity_query(Tail(chunks), res)
             ELSE run_commodity_query(
                     Tail(chunks),
                     QueryParts(res, chunk.candidates[1][1].content[1].parts[1]))

\* C29: for every chunk sequence that ends without failure, chunks without
\* usable content included, run_commodity_query returns the text, code_blocks
\* and code_results that stream_gemini sends in its `done` event for the same
\* sequence.
C29_QueryEqualsDonePayload ==
    \A r \in Runs :
        (pc[r] = "done" /\ fn[r] = "stream_gemini") =>
            LET query == run_commodity_query(pulled[r], EmptyAggregate)
            IN  /\ ~query.raised
                /\ JEq(AggregateJson(query.value), LastOf(out[r]).data)

\* --------------------------------------------------------- product counts

RECURSIVE SumOfLengths(_)
SumOfLengths(pairs) ==
    IF pairs = <<>> THEN 0 ELSE Len(Head(pairs)[2].v) + SumOfLengths(Tail(pairs))

\* C30: after any number of runs of the retry merge, whichever PDFs succeed
\* in each, metadata.total_products of the file is the length of
\* all_products and the sum of the lengths of the products_by_category lists.
C30_CountsAgreeAfterRetries ==
    /\ JEq(Lookup(Lookup(OUTPUT_FILE, "metadata"), "total_products"),
           JNum(ToString(Len(Lookup(OUTPUT_FILE, "all_products").v))))
    /\ SumOfLengths(Lookup(OUTPUT_FILE, "products_by_category").v)
          = Len(Lookup(OUTPUT_FILE, "all_products").v)

=============================================================================
